---- MODULE Spec2Model ----
(***************************************************************************)
(* The OCP version-update pipelines of assisted-installer-deployment:      *)
(*   variant "A" = tools/new_minor_OCP_version.py                           *)
(*   variant "B" = tools/update_default_release_versions_to_latest.py       *)
(* Each run of main(args) is a sequential process whose position is        *)
(* run[p].pc.  The ticket store (Jira), the code host (GitHub), the CI      *)
(* (Jenkins), the secondary code host (GitLab) and the two remote          *)
(* documents are the shared world the runs act on.                         *)
(***************************************************************************)
EXTENDS Integers, Sequences, FiniteSets, TLC

\* ------------------------------------------------------------------ bounds
MaxRuns == 2            \* invocations of main in one behaviour

Procs == {1, 2}         \* runner identities; the sequential Spec uses one
SeqProcs == {1}

\* --------------------------------------------------------- program constants
NoTask == 0                                   \* create_jira_ticket's None
TEST_8888 == 8888                             \* dry-run ticket id "TEST-8888"
DRY_RUN_RHCOS_VERSION == "8888888"
A_DEFAULT_ASSIGN == "lgamliel"
B_DEFAULT_ASSIGN == "oscohen"
DEFAULT_WATCHERS == <<"ronniela", "romfreiman", "lgamliel", "oscohen">>
A_LATEST_OCP_VERSION == "4.6.9999"            \* get_latest_ocp_version's return
B_TICKET_DESCRIPTION == <<"Default versions need to be updated", "", "">>
HOLD == "/hold"
UNHOLD == "/unhold"
NO_TEST_PLATFORM == "Currently no test platform is available, un-holding"
SUCCESS == "SUCCESS"

\* TICKET_DESCRIPTION.format(latest_version=..., current_version=...): the
\* fixed text and the two versions it is filled with
A_TICKET_DESCRIPTION(latest_version, current_version) ==
    <<"OCP version update required", latest_version, current_version>>

\* BRANCH_NAME.format(version=new_version): update_ocp_version_to_<version>
A_BRANCH_NAME(version) ==
    [name |-> "update_ocp_version_to", version |-> version, prefix |-> NoTask]

\* BRANCH_NAME.format(prefix=task): <task>_update_assisted_service_versions
B_BRANCH_NAME(prefix) ==
    [name |-> "update_assisted_service_versions", version |-> "", prefix |-> prefix]

\* no branch yet
NoBranch == [name |-> "", version |-> "", prefix |-> NoTask]

\* the attributes parse_args() of variant A gives the namespace handed to main
A_parse_args == {"jira_user_password", "github_user_password", "gitlab_key_file",
                 "gitlab_token", "jenkins_user_password"}

\* Jira workflow statuses; a ticket is resolved when it is DONE
TODO == "TO DO"
Statuses == {TODO, "IN PROGRESS", "DONE"}
Unresolved(t) == t.status # "DONE"

\* what requests.get gives for a version document: a success status with
\* the document, a non-success status, or a success status with a body that
\* json.loads rejects
Responses == {"ok", "not ok", "not json"}

\* terminal results a Jenkins build can report
JobResults == {SUCCESS, "FAILURE", "ABORTED"}

\* ------------------------------------------------------------ text helpers
\* Release names are kept as strings; the functions that look inside a name
\* (startswith, "-rc" in r, LooseVersion) read its characters from Chars.
Chars(s) ==
    CASE s = ".."         -> <<".", ".">>
      [] s = "latest"     -> <<"l", "a", "t", "e", "s", "t">>
      [] s = "4.1"        -> <<"4", ".", "1">>
      [] s = "4.1.5"      -> <<"4", ".", "1", ".", "5">>
      [] s = "4.10.0"     -> <<"4", ".", "1", "0", ".", "0">>
      [] s = "4.6"        -> <<"4", ".", "6">>
      [] s = "4.7"        -> <<"4", ".", "7">>
      [] s = "4.6.1"      -> <<"4", ".", "6", ".", "1">>
      [] s = "4.6.8"      -> <<"4", ".", "6", ".", "8">>
      [] s = "4.6.9"      -> <<"4", ".", "6", ".", "9">>
      [] s = "4.6.9999"   -> <<"4", ".", "6", ".", "9", "9", "9", "9">>
      [] s = "4.7.0"      -> <<"4", ".", "7", ".", "0">>
      [] s = "4.7.1"      -> <<"4", ".", "7", ".", "1">>
      [] s = "4.7.0-rc.1" -> <<"4", ".", "7", ".", "0", "-", "r", "c", ".", "1">>
      [] s = "-rc"        -> <<"-", "r", "c">>
      [] s = "-fc"        -> <<"-", "f", "c">>

Digits == {"0", "1", "2", "3", "4", "5", "6", "7", "8", "9"}
Letters == {"a", "c", "e", "f", "l", "r", "s", "t"}

DigitVal(c) ==
    CASE c = "0" -> 0 [] c = "1" -> 1 [] c = "2" -> 2 [] c = "3" -> 3 [] c = "4" -> 4
      [] c = "5" -> 5 [] c = "6" -> 6 [] c = "7" -> 7 [] c = "8" -> 8 [] c = "9" -> 9

\* ord(c) of the characters that occur in a non-numeric component
Ord(c) ==
    CASE c = "-" -> 45 [] c = "a" -> 97 [] c = "c" -> 99 [] c = "e" -> 101
      [] c = "f" -> 102 [] c = "l" -> 108 [] c = "r" -> 114 [] c = "s" -> 115
      [] c = "t" -> 116 [] OTHER -> 0

\* str.startswith on character sequences
startswith(cs, prefix) ==
    /\ Len(prefix) <= Len(cs)
    /\ \A i \in 1..Len(prefix) : cs[i] = prefix[i]

\* `sub in cs`
contains(cs, sub) ==
    \E i \in 0..(Len(cs) - Len(sub)) : \A j \in 1..Len(sub) : cs[i + j] = sub[j]

\* every text that Chars spells
Names == {"..", "latest", "4.1", "4.1.5", "4.10.0", "4.6", "4.7", "4.6.1", "4.6.8", "4.6.9", "4.6.9999",
          "4.7.0", "4.7.1", "4.7.0-rc.1", "-rc", "-fc"}

\* the string a character sequence spells
Str(cs) == CHOOSE s \in Names : Chars(s) = cs

\* str.rsplit('.', 1)[0]: the text before the last dot (the whole text without a dot)
rsplit_dot(s) ==
    LET cs == Chars(s)
        dots == {i \in 1..Len(cs) : cs[i] = "."}
    IN  IF dots = {} THEN s
        ELSE Str(SubSeq(cs, 1, (CHOOSE i \in dots : \A j \in dots : j <= i) - 1))

\* ---------------------------------------------------- distutils LooseVersion
\* A component is a number or a string: [isnum, num, str].
NumComp(n) == [isnum |-> TRUE, num |-> n, str |-> <<>>]
StrComp(cs) == [isnum |-> FALSE, num |-> 0, str |-> cs]

CharClass(c) ==
    IF c \in Digits THEN "d" ELSE IF c \in Letters THEN "a" ELSE IF c = "." THEN "." ELSE "x"

\* the last index of the run of characters of one class that starts at i
RECURSIVE RunEnd(_, _)
RunEnd(cs, i) ==
    IF i < Len(cs) /\ CharClass(cs[i + 1]) = CharClass(cs[i]) /\ CharClass(cs[i]) # "."
    THEN RunEnd(cs, i + 1) ELSE i

RECURSIVE IntOf(_)
IntOf(ds) == IF ds = <<>> THEN 0 ELSE 10 * IntOf(SubSeq(ds, 1, Len(ds) - 1)) + DigitVal(ds[Len(ds)])

\* LooseVersion.parse: split on (\d+ | [a-z]+ | \.), drop "." and "", int() the digits
RECURSIVE ParseFrom(_, _)
ParseFrom(cs, i) ==
    IF i > Len(cs) THEN <<>>
    ELSE LET j == RunEnd(cs, i)
             piece == SubSeq(cs, i, j)
         IN  IF CharClass(cs[i]) = "." THEN ParseFrom(cs, j + 1)
             ELSE IF CharClass(cs[i]) = "d" THEN <<NumComp(IntOf(piece))>> \o ParseFrom(cs, j + 1)
             ELSE <<StrComp(piece)>> \o ParseFrom(cs, j + 1)

LooseVersion(r) == ParseFrom(Chars(r), 1)

\* Python's str < str
RECURSIVE StrLess(_, _)
StrLess(a, b) ==
    IF a = <<>> THEN b # <<>>
    ELSE IF b = <<>> THEN FALSE
    ELSE IF a[1] # b[1] THEN Ord(a[1]) < Ord(b[1])
    ELSE StrLess(Tail(a), Tail(b))

\* an int and a str do not compare in Python 3: sorted() raises TypeError
RECURSIVE Comparable(_, _)
Comparable(v, w) ==
    IF v = <<>> \/ w = <<>> THEN TRUE
    ELSE IF v[1].isnum # w[1].isnum THEN FALSE
    ELSE IF v[1] # w[1] THEN TRUE
    ELSE Comparable(Tail(v), Tail(w))

\* list < list on component lists
RECURSIVE VersionLess(_, _)
VersionLess(v, w) ==
    IF v = <<>> THEN w # <<>>
    ELSE IF w = <<>> THEN FALSE
    ELSE IF v[1] # w[1]
         THEN IF v[1].isnum THEN v[1].num < w[1].num ELSE StrLess(v[1].str, w[1].str)
    ELSE VersionLess(Tail(v), Tail(w))

is_pre_release(release) ==
    contains(Chars(release), Chars("-fc")) \/ contains(Chars(release), Chars("-rc"))

\* the list get_latest_release_from_minor sorts
all_relevant_releases(minor_release, all_releases) ==
    LET of_minor == {all_releases[i] : i \in {k \in 1..Len(all_releases) :
                         startswith(Chars(all_releases[k]), Chars(minor_release))}}
        final == {r \in of_minor : ~is_pre_release(r)}
    IN  IF final # {} THEN final ELSE of_minor

\* sorted(all_relevant_releases, key=LooseVersion)[-1]; "IndexError" on an empty
\* list and "TypeError" when two of the versions do not compare
get_latest_release_from_minor(minor_release, all_releases) ==
    LET rel == all_relevant_releases(minor_release, all_releases)
    IN  IF rel = {} THEN "IndexError"
        ELSE IF \E a, b \in rel : ~Comparable(LooseVersion(a), LooseVersion(b)) THEN "TypeError"
        ELSE CHOOSE r \in rel :
                 \A o \in rel : ~VersionLess(LooseVersion(r), LooseVersion(o))

\* ------------------------------------------------------- remote documents
\* default_ocp_versions.json on the primary repository's master, keyed by
\* release line.  release_image is quay.io/openshift-release-dev/ocp-release:
\* <ocp_release>-<arch>; rhcos_image is .../rhcos/<minor>/<dir>/rhcos-<file>-
\* x86_64-live.x86_64.iso.
Lines == {"4.6", "4.7"}

VersionEntry(ocp, rhcos, rhcos_version) ==
    [display_name  |-> ocp,
     release_image |-> [ocp_release |-> ocp, arch |-> "x86_64"],
     rhcos_image   |-> [dir |-> rhcos, file |-> rhcos],
     rhcos_version |-> rhcos_version]

\* the version inside the live ISO of an RHCOS release
rchos_version_in_iso(release) ==
    CASE release = "4.6.1" -> "46.82.1"
      [] release = "4.6.8" -> "46.82.8"
      [] release = "4.7.0" -> "47.83.0"
      [] OTHER             -> "unknown"

\* default_ocp_versions.json as master can hold it: <<4.6 release, 4.6 RHCOS
\* release, 4.7 release>>.  Current for variant A; current for variant B; one
\* attribute behind; two lines behind.
PinnedReleases ==
    { <<"4.6.9999", "4.6.8", "4.7.1">>, <<"4.6.9", "4.6.8", "4.7.1">>,
      <<"4.6.9", "4.6.1", "4.7.1">>,    <<"4.6.9", "4.6.1", "4.7.0">> }

PinnedDocs ==
    {[l \in Lines |-> IF l = "4.6" THEN VersionEntry(r[1], r[2], rchos_version_in_iso(r[2]))
                                  ELSE VersionEntry(r[3], "4.7.0", rchos_version_in_iso("4.7.0"))] :
        r \in PinnedReleases}

\* get_all_releases(OCP_RELEASES): the hrefs of the mirror's index page
OCP_RELEASES_page == <<"..", "4.6.8", "4.6.9", "4.7.0-rc.1", "4.7.1", "latest">>

\* get_all_releases(RHCOS_RELEASES.format(minor=minor))
RHCOS_RELEASES_page(minor) ==
    IF minor = "4.6" THEN <<"..", "4.6.1", "4.6.8", "latest">> ELSE <<"..", "4.7.0", "latest">>

\* OCP_VERSION_REGEX.search(release_image).group(1); "AttributeError" without a match
OCP_VERSION_REGEX_group1(release_image) ==
    IF release_image.arch = "x86_64" THEN release_image.ocp_release ELSE "AttributeError"

\* RHCOS_LIVE_ISO_REGEX.search(rhcos_image).group(1): the directory segment
get_rchos_release_from_default_version_json(ocp_version_minor, release_json) ==
    release_json[ocp_version_minor].rhcos_image.dir

\* str.replace(old, new) on a field that holds one release name
replace(text, old, new) == IF text = old THEN new ELSE text

\* saas.yaml of the secondary repository: resourceTemplates[0].targets, each
\* target with its namespace $ref and its parameters.OPENSHIFT_VERSIONS
REF_INTEGRATION == "assisted-installer-integration.yml"
REF_INTEGRATION_V3 == "assisted-installer-integration-v3.yml"
REF_STAGE == "assisted-installer-stage.yml"
REF_PRODUCTION == "assisted-installer-production.yml"
REF_OTHER == "assisted-installer-other.yml"

Target(ref, versions) == [namespace |-> ref, OPENSHIFT_VERSIONS |-> versions]

\* a version map that no run writes: what the document holds before any merge
OLD_VERSIONS == [l \in {"4.5"} |-> VersionEntry("4.5.0", "4.5.0", "45.81.0")]

\* The downstream documents a run can meet.  A namespace occurs at most once
\* in a document (the document is keyed by environment); the integration
\* target may be missing, and targets of no tracked environment may be there.
SaasDocs ==
    { <<Target(REF_OTHER, OLD_VERSIONS), Target(REF_INTEGRATION, OLD_VERSIONS),
        Target(REF_INTEGRATION_V3, OLD_VERSIONS), Target(REF_STAGE, OLD_VERSIONS),
        Target(REF_PRODUCTION, OLD_VERSIONS)>>,
      <<Target(REF_STAGE, OLD_VERSIONS), Target(REF_PRODUCTION, OLD_VERSIONS),
        Target(REF_INTEGRATION_V3, OLD_VERSIONS)>> }

\* ------------------------------------------------------------------- state
VARIABLES
    run,                   \* run[p]: the locals and position of runner p's main
    runs,                  \* invocations of main so far
    jira,                  \* tickets of component "Assisted-Installer CI", by key
    default_ocp_versions,  \* the pinned document on the primary repository
    github_branches,       \* branches pushed to the primary repository's origin
    pulls,                 \* pull requests of the primary repository, by number
    builds,                \* builds of the Jenkins job, by build number
    gitlab_forks,          \* forks of the secondary repository
    gitlab_branches,       \* branches pushed to the fork
    merge_call,            \* change_version_in_files_app_interface called on its own
    call                   \* another function called on its own: its arguments and result

vars == <<run, runs, jira, default_ocp_versions, github_branches, pulls,
          builds, gitlab_forks, gitlab_branches, merge_call, call>>

world == <<jira, default_ocp_versions, github_branches, pulls, builds,
           gitlab_forks, gitlab_branches>>

\* what the external systems hold that a run can write
external == <<jira, github_branches, pulls, builds, gitlab_forks, gitlab_branches>>

\* A working copy: head is the content last committed, tree the content of
\* the files, commits and writes count what the run did to it.  The primary
\* repository's copy holds the version map, the secondary's the saas document.
NoServiceClone == [cloned |-> FALSE, head |-> OLD_VERSIONS, tree |-> OLD_VERSIONS,
                   writes |-> 0, commits |-> 0]
NoAppClone == [cloned |-> FALSE, head |-> <<>>, tree |-> <<>>, writes |-> 0, commits |-> 0]

\* git clone of content `doc`
Clone(doc) == [cloned |-> TRUE, head |-> doc, tree |-> doc, writes |-> 0, commits |-> 0]

\* a file of the working copy is written with `doc`
WriteFile(wc, doc) == [wc EXCEPT !.tree = doc, !.writes = @ + 1]

\* git commit -a
Commit(wc) == [wc EXCEPT !.head = wc.tree, !.commits = @ + 1]

\* The arguments and the module-level exclusion set of a call of
\* change_version_in_files_app_interface made outside main, the working copy
\* it is given, and the file's content and the exception after each call.
\* In a run of main the function is called from update_ai_app_sre / main and
\* this record stays as it is here.
NoMergeCall ==
    [variant |-> "A", excluded |-> {}, openshift_versions_json |-> OLD_VERSIONS,
     wc |-> NoAppClone, trees |-> <<>>, errors |-> <<>>]

\* no function is called on its own in a run of main
NoCall == [function |-> "", args |-> <<>>, returned |-> <<>>]

\* the locals of main before it starts
IdleRun ==
    [pc |-> "idle", variant |-> "A", dry_run |-> FALSE,
     latest_ocp_version |-> "", current_version |-> "",
     default_version_json |-> OLD_VERSIONS, updated_version_json |-> OLD_VERSIONS,
     updates_made |-> {},
     ticket_text |-> <<"", "", "">>, summaries |-> {}, task |-> NoTask,
     assisted_service |-> NoServiceClone, app_interface |-> NoAppClone,
     openshift_versions_json |-> OLD_VERSIONS,
     branch |-> NoBranch, pr |-> 0, next_build_number |-> 0, result |-> "",
     returncode |-> <<>>, test_success |-> FALSE, changed |-> FALSE, fork |-> 0,
     app_interface_branch |-> NoBranch, error |-> ""]

Init ==
    /\ \E script \in {"A", "B"} : run = [p \in Procs |-> [IdleRun EXCEPT !.variant = script]]
    /\ runs = 0
    /\ jira = <<>>
    /\ default_ocp_versions \in PinnedDocs
    /\ github_branches = {}
    /\ pulls = <<>>
    /\ builds = <<>>
    /\ gitlab_forks = {}
    /\ gitlab_branches = {}
    /\ merge_call = NoMergeCall
    /\ call = NoCall

\* runner p moves to position pc with the locals in `new` changed
Goto(p, pc, new) ==
    run' = [run EXCEPT ![p] = [f \in DOMAIN run[p] |->
                IF f = "pc" THEN pc ELSE IF f \in DOMAIN new THEN new[f] ELSE run[p][f]]]

\* an exception leaves main: the process exits non-zero
Raise(p, error) == Goto(p, "aborted", [error |-> error])

\* main returns
Return(p) == Goto(p, "done", [error |-> ""])

At(p, pc) == run[p].pc = pc
Finished(p) == run[p].pc \in {"idle", "done", "aborted"}

\* ------------------------------------------------------------ shared steps
\* The scheduled job invokes the script it deploys: `python
\* new_minor_OCP_version.py ...` (variant A, run[p].variant as Init set it) or
\* `python update_default_release_versions_to_latest.py ... [--dry-run]`
\* (variant B).  main starts with fresh locals.
StartRun(p) ==
    /\ Finished(p)
    /\ runs < MaxRuns
    /\ runs' = runs + 1
    /\ IF run[p].variant = "A"
       THEN run' = [run EXCEPT ![p] = [IdleRun EXCEPT
                        !.pc = "A_get_default_ocp_version",
                        !.variant = "A",
                        !.latest_ocp_version = A_LATEST_OCP_VERSION]]
       ELSE \E dry \in BOOLEAN :
             run' = [run EXCEPT ![p] = [IdleRun EXCEPT
                        !.pc = IF dry THEN "B_detect" ELSE "B_is_open_update_version_ticket",
                        !.variant = "B",
                        !.dry_run = dry]]
    /\ UNCHANGED <<call, merge_call, world>>

\* jira_client.create_issue(project="MGMT", summary=ticket_text, ...)
NewIssue(ticket_text) ==
    [summary |-> ticket_text, status |-> TODO, assignee |-> "", watchers |-> {},
     comments |-> 0]

\* seeded fault: the assignment also transitions the issue
assign_issue_and_resolve(tickets, key, assignee) ==
    [tickets EXCEPT ![key].assignee = assignee, ![key].status = "DONE"]

\* jira_client.assign_issue(new_task, DEFAULT_ASSIGN)
assign_issue(tickets, key, assignee) == [tickets EXCEPT ![key].assignee = assignee]

\* add_watchers: the first k calls of the loop over DEFAULT_WATCHERS went through
add_watchers(tickets, key, k) ==
    [tickets EXCEPT ![key].watchers = @ \cup {DEFAULT_WATCHERS[i] : i \in 1..k}]

\* jira_client.add_comment(task, ...)
add_comment(tickets, key) == [tickets EXCEPT ![key].comments = @ + 1]

\* pr.create_issue_comment(text)
create_issue_comment(prs, number, text) ==
    [prs EXCEPT ![number].comments = Append(@, text)]

\* the hold state prow derives from the /hold and /unhold comments of a pull
Held(pull) ==
    LET cmds == {i \in 1..Len(pull.comments) : pull.comments[i] \in {HOLD, UNHOLD}}
    IN  cmds # {} /\ pull.comments[CHOOSE i \in cmds : \A j \in cmds : j <= i] = HOLD

\* ---------------------------------------------------------------- variant A
\* seeded fault: the status of the response is not tested, and the version
\* read from a failed response is empty
A_get_default_ocp_version_unchecked(p) ==
    /\ At(p, "A_get_default_ocp_version")
    /\ \E res \in Responses :
         LET latest == run[p].latest_ocp_version
             ocp_version_major == rsplit_dot(latest)
             current == OCP_VERSION_REGEX_group1(default_ocp_versions[ocp_version_major].release_image)
         IN  IF res # "ok"
             THEN Goto(p, "A_search_issues", [ticket_text |-> A_TICKET_DESCRIPTION(latest, "")])
             ELSE IF latest = current THEN Goto(p, "done", [current_version |-> current])
             ELSE Goto(p, "A_search_issues",
                       [current_version |-> current,
                        ticket_text |-> A_TICKET_DESCRIPTION(latest, current)])
    /\ UNCHANGED <<call, merge_call, runs, world>>

\* main, lines 120-131: get_latest_ocp_version returns its hard-coded value;
\* get_default_ocp_version fetches and parses the pinned document; the two
\* are compared
A_get_default_ocp_version(p) ==
    /\ At(p, "A_get_default_ocp_version")
    /\ \E res \in Responses :
         LET latest == run[p].latest_ocp_version
             ocp_version_major == rsplit_dot(latest)
             current == OCP_VERSION_REGEX_group1(default_ocp_versions[ocp_version_major].release_image)
         IN  IF res = "not ok" THEN Raise(p, "RuntimeError")
             ELSE IF res = "not json" THEN Raise(p, "JSONDecodeError")
             ELSE IF ocp_version_major \notin DOMAIN default_ocp_versions THEN Raise(p, "KeyError")
             ELSE IF current = "AttributeError" THEN Raise(p, "AttributeError")
             ELSE IF latest = current THEN Goto(p, "done", [current_version |-> current])
             ELSE Goto(p, "A_search_issues",
                       [current_version |-> current,
                        ticket_text |-> A_TICKET_DESCRIPTION(latest, current)])
    /\ UNCHANGED <<call, merge_call, runs, world>>

\* get_all_version_ocp_update_tickets_summaries: every issue of the component,
\* whatever its status
get_all_version_ocp_update_tickets_summaries(tickets) ==
    {<<key, tickets[key].summary>> : key \in 1..Len(tickets)}

\* seeded fault: a scan that never finds the text
ticket_already_exists_never(summaries, ticket_text) ==
    FALSE

\* whether create_jira_ticket's scan of the summaries finds the text
ticket_already_exists(summaries, ticket_text) ==
    \E s \in summaries : s[2] = ticket_text

\* create_jira_ticket, lines 232-242: search, and return None on a match
A_search_issues(p) ==
    /\ At(p, "A_search_issues")
    /\ \E ok \in BOOLEAN :
         LET summaries == get_all_version_ocp_update_tickets_summaries(jira)
         IN  IF ~ok THEN Raise(p, "JIRAError")
             ELSE IF ticket_already_exists(summaries, run[p].ticket_text)
                  THEN Goto(p, "done", [summaries |-> summaries, task |-> NoTask])
             ELSE Goto(p, "A_create_issue", [summaries |-> summaries])
    /\ UNCHANGED <<call, merge_call, runs, world>>

\* create_jira_ticket, lines 244-249
A_create_issue(p) ==
    /\ At(p, "A_create_issue")
    /\ \E ok \in BOOLEAN :
         IF ok THEN /\ jira' = Append(jira, NewIssue(run[p].ticket_text))
                    /\ Goto(p, "A_assign_issue", [task |-> Len(jira) + 1])
         ELSE /\ Raise(p, "JIRAError")
              /\ UNCHANGED jira
    /\ UNCHANGED <<call, merge_call, runs, default_ocp_versions, github_branches, pulls, builds,
                   gitlab_forks, gitlab_branches>>

\* create_jira_ticket, line 250
A_assign_issue(p) ==
    /\ At(p, "A_assign_issue")
    /\ \E ok \in BOOLEAN :
         IF ok THEN /\ jira' = assign_issue(jira, run[p].task, A_DEFAULT_ASSIGN)
                    /\ Goto(p, "A_add_watchers", << >>)
         ELSE /\ Raise(p, "JIRAError")
              /\ UNCHANGED jira
    /\ UNCHANGED <<call, merge_call, runs, default_ocp_versions, github_branches, pulls, builds,
                   gitlab_forks, gitlab_branches>>

\* create_jira_ticket, lines 252-253: add_watchers, then the ticket is returned
A_add_watchers(p) ==
    /\ At(p, "A_add_watchers")
    /\ \E k \in 0..Len(DEFAULT_WATCHERS) :
         /\ jira' = add_watchers(jira, run[p].task, k)
         /\ IF k = Len(DEFAULT_WATCHERS) THEN Goto(p, "A_clone_assisted_service", << >>)
            ELSE Raise(p, "JIRAError")
    /\ UNCHANGED <<call, merge_call, runs, default_ocp_versions, github_branches, pulls, builds,
                   gitlab_forks, gitlab_branches>>

\* change_version_in_files on the version map of default_ocp_versions.json:
\* every "<old>" and every ocp-release:<old> becomes its <new> counterpart
change_version_in_files(versions, old_version, new_version) ==
    [l \in DOMAIN versions |->
        [versions[l] EXCEPT
            !.display_name = replace(@, old_version, new_version),
            !.rhcos_version = replace(@, old_version, new_version),
            !.release_image = [@ EXCEPT !.ocp_release = replace(@, old_version, new_version)]]]

\* exit codes of `make verify-latest-onprem-config` / `make generate-ocp-version`
MakeExitCodes == {0, 1, 2}

\* seeded fault: the handler re-raises whatever the exit code
verify_raises_any_failure(returncode) == returncode # 0

\* verify_latest_onprem_config / verify_latest_config: exit code 2 is swallowed,
\* any other non-zero code is raised
verify_raises(returncode) == returncode # 0 /\ returncode # 2

\* update_ai_repo_to_new_ocp_version, line 424: clone_assisted_service
A_clone_assisted_service(p) ==
    /\ At(p, "A_clone_assisted_service")
    /\ \E ok \in BOOLEAN :
         IF ok THEN Goto(p, "A_change_version_in_files",
                         [assisted_service |-> Clone(default_ocp_versions)])
         ELSE Raise(p, "CalledProcessError")
    /\ UNCHANGED <<call, merge_call, runs, world>>

\* update_ai_repo_to_new_ocp_version, lines 425-431: the substitutions, then
\* `make update-ocp-version`, then OPENSHIFT_VERSIONS is read from the template
A_change_version_in_files(p) ==
    /\ At(p, "A_change_version_in_files")
    /\ \E ok \in BOOLEAN :
         LET wc == run[p].assisted_service
             patched == change_version_in_files(wc.tree, run[p].current_version,
                                                run[p].latest_ocp_version)
         IN  IF ok THEN Goto(p, "A_commit",
                             [assisted_service |-> WriteFile(wc, patched),
                              openshift_versions_json |-> patched])
             ELSE Raise(p, "CalledProcessError")
    /\ UNCHANGED <<call, merge_call, runs, world>>

\* commit_and_push_version_update_changes, line 358: `git commit -a` exits 1
\* when there is nothing to commit
A_commit(p) ==
    /\ At(p, "A_commit")
    /\ \E ok \in BOOLEAN :
         LET wc == run[p].assisted_service
         IN  IF ok /\ wc.tree # wc.head
             THEN Goto(p, "A_verify_latest_onprem_config", [assisted_service |-> Commit(wc)])
             ELSE Raise(p, "CalledProcessError")
    /\ UNCHANGED <<call, merge_call, runs, world>>

\* seeded fault: a failed regeneration closes the run's ticket before the
\* exception leaves
A_verify_latest_onprem_config_rolls_back(p) ==
    /\ At(p, "A_verify_latest_onprem_config")
    /\ \E returncode \in MakeExitCodes :
         IF verify_raises(returncode)
         THEN /\ Goto(p, "aborted", [error |-> "CalledProcessError", returncode |-> <<returncode>>])
              /\ jira' = [jira EXCEPT ![run[p].task].status = "DONE"]
         ELSE /\ Goto(p, "A_commit_onprem_config", [returncode |-> <<returncode>>])
              /\ UNCHANGED jira
    /\ UNCHANGED <<call, merge_call, runs, default_ocp_versions, github_branches, pulls, builds,
                   gitlab_forks, gitlab_branches>>

\* commit_and_push_version_update_changes, line 362: the regeneration step
A_verify_latest_onprem_config(p) ==
    /\ At(p, "A_verify_latest_onprem_config")
    /\ \E returncode \in MakeExitCodes :
         IF verify_raises(returncode)
         THEN Goto(p, "aborted", [error |-> "CalledProcessError", returncode |-> <<returncode>>])
         ELSE Goto(p, "A_commit_onprem_config", [returncode |-> <<returncode>>])
    /\ UNCHANGED <<call, merge_call, runs, world>>

\* commit_and_push_version_update_changes, lines 363-368: git status, and a
\* second commit when the regeneration left changes behind
A_commit_onprem_config(p) ==
    /\ At(p, "A_commit_onprem_config")
    /\ \E dirty \in BOOLEAN, ok \in BOOLEAN :
         LET wc == run[p].assisted_service
         IN  IF ~ok THEN Raise(p, "CalledProcessError")
             ELSE Goto(p, "A_push",
                       [assisted_service |-> IF dirty THEN Commit(wc) ELSE wc])
    /\ UNCHANGED <<call, merge_call, runs, world>>

\* seeded fault: the pull request is opened without the branch being pushed
A_push_skipped(p) ==
    /\ At(p, "A_push")
    /\ Goto(p, "A_create_pull", << >>)
    /\ UNCHANGED <<call, merge_call, runs, world>>

\* commit_and_push_version_update_changes, lines 370-371: the command is
\* `git -C assisted-service git push origin HEAD:<branch>`; its exit code is
\* whatever the installed git gives the `git` subcommand
A_push(p) ==
    /\ At(p, "A_push")
    /\ \E ok \in BOOLEAN :
         LET branch == A_BRANCH_NAME(run[p].latest_ocp_version)
         IN  IF ok THEN /\ github_branches' = github_branches \cup {branch}
                        /\ Goto(p, "A_create_pull", [branch |-> branch])
             ELSE /\ Raise(p, "CalledProcessError")
                  /\ UNCHANGED github_branches
    /\ UNCHANGED <<call, merge_call, runs, jira, default_ocp_versions, pulls, builds,
                   gitlab_forks, gitlab_branches>>

\* repo.create_pull(title=..., head=<login>:<branch>, base="master")
NewPull(branch, task) ==
    [head |-> branch, task |-> task, state |-> "open", comments |-> <<>>]

\* open_pr, lines 445-456: args.git_user_password is read first, an attribute
\* parse_args does not define; only a namespace that main is handed by another
\* caller can carry it (`extra`)
A_create_pull(p) ==
    /\ At(p, "A_create_pull")
    /\ \E ok \in BOOLEAN, extra \in {{}, {"git_user_password"}} :
         IF "git_user_password" \notin A_parse_args \cup extra
         THEN Raise(p, "AttributeError") /\ UNCHANGED pulls
         ELSE IF ~ok THEN Raise(p, "GithubException") /\ UNCHANGED pulls
         ELSE /\ pulls' = Append(pulls, NewPull(A_BRANCH_NAME(run[p].latest_ocp_version),
                                                run[p].task))
              /\ Goto(p, "A_hold_pr", [pr |-> Len(pulls) + 1])
    /\ UNCHANGED <<call, merge_call, runs, jira, default_ocp_versions, github_branches, builds,
                   gitlab_forks, gitlab_branches>>

\* seeded fault: open_pr returns the pull request without holding it
A_hold_pr_skipped(p) ==
    /\ At(p, "A_hold_pr")
    /\ Goto(p, "A_get_job_info", << >>)
    /\ UNCHANGED <<call, merge_call, runs, world>>

\* open_pr, line 457: hold_pr(pr)
A_hold_pr(p) ==
    /\ At(p, "A_hold_pr")
    /\ \E ok \in BOOLEAN :
         IF ok THEN /\ pulls' = create_issue_comment(pulls, run[p].pr, HOLD)
                    /\ Goto(p, "A_get_job_info", << >>)
         ELSE Raise(p, "GithubException") /\ UNCHANGED pulls
    /\ UNCHANGED <<call, merge_call, runs, jira, default_ocp_versions, github_branches, builds,
                   gitlab_forks, gitlab_branches>>

\* test_test_infra_passes, line 174: nextBuildNumber of the job
A_get_job_info(p) ==
    /\ At(p, "A_get_job_info")
    /\ \E ok \in BOOLEAN :
         IF ok THEN Goto(p, "A_build_job", [next_build_number |-> Len(builds) + 1])
         ELSE Raise(p, "JenkinsException")
    /\ UNCHANGED <<call, merge_call, runs, world>>

\* jenkins_client.build_job(TEST_INFRA_JOB, parameters={"SERVICE_BRANCH": branch, ...})
NewBuild(branch) == [branch |-> branch, result |-> ""]

\* test_test_infra_passes, lines 175-176
A_build_job(p) ==
    /\ At(p, "A_build_job")
    /\ \E ok \in BOOLEAN :
         IF ok THEN /\ builds' = Append(builds, NewBuild(run[p].branch))
                    /\ Goto(p, "A_wait_for_job", << >>)
         ELSE Raise(p, "JenkinsException") /\ UNCHANGED builds
    /\ UNCHANGED <<call, merge_call, runs, jira, default_ocp_versions, github_branches, pulls,
                   gitlab_forks, gitlab_branches>>

\* seeded fault: only "FAILURE" counts as a failed job
succeeded_unless_failure(result) ==
    result # "FAILURE"

\* test_test_infra_passes, line 185: result == "SUCCESS"
succeeded(result) ==
    result = SUCCESS

\* seeded fault: the loop is left after the first poll, result or not
A_wait_for_job_once(p) ==
    /\ At(p, "A_wait_for_job")
    /\ \E ok \in BOOLEAN :
         LET n == run[p].next_build_number
         IN  IF ~ok \/ n > Len(builds) THEN Raise(p, "JenkinsException")
             ELSE Goto(p, IF succeeded(builds[n].result) THEN "A_unhold_pr"
                                                         ELSE "A_comment_failed",
                       [result |-> builds[n].result,
                        test_success |-> succeeded(builds[n].result)])
    /\ UNCHANGED <<call, merge_call, runs, world>>

\* test_test_infra_passes, lines 178-185, and test_changes' branch on it: the
\* loop leaves when the polled build has a result
A_wait_for_job(p) ==
    /\ At(p, "A_wait_for_job")
    /\ \E ok \in BOOLEAN :
         LET n == run[p].next_build_number
         IN  IF ~ok \/ n > Len(builds) THEN Raise(p, "JenkinsException")
             ELSE /\ builds[n].result # ""
                  /\ Goto(p, IF succeeded(builds[n].result) THEN "A_unhold_pr"
                                                            ELSE "A_comment_failed",
                          [result |-> builds[n].result,
                           test_success |-> succeeded(builds[n].result)])
    /\ UNCHANGED <<call, merge_call, runs, world>>

\* test_changes, line 162: unhold_pr(pr)
A_unhold_pr(p) ==
    /\ At(p, "A_unhold_pr")
    /\ \E ok \in BOOLEAN :
         IF ok THEN /\ pulls' = create_issue_comment(pulls, run[p].pr, UNHOLD)
                    /\ Goto(p, "A_comment_passed", << >>)
         ELSE Raise(p, "GithubException") /\ UNCHANGED pulls
    /\ UNCHANGED <<call, merge_call, runs, jira, default_ocp_versions, github_branches, builds,
                   gitlab_forks, gitlab_branches>>

\* test_changes, line 163, then main line 146 with test_success true
A_comment_passed(p) ==
    /\ At(p, "A_comment_passed")
    /\ \E ok \in BOOLEAN :
         IF ok THEN /\ pulls' = create_issue_comment(pulls, run[p].pr, "test-infra test passed")
                    /\ Goto(p, "A_create_app_interface_fork", << >>)
         ELSE Raise(p, "GithubException") /\ UNCHANGED pulls
    /\ UNCHANGED <<call, merge_call, runs, jira, default_ocp_versions, github_branches, builds,
                   gitlab_forks, gitlab_branches>>

\* seeded fault: main goes on to the secondary repository after a failed test
A_comment_failed_then_propagates(p) ==
    /\ At(p, "A_comment_failed")
    /\ \E ok \in BOOLEAN :
         IF ok THEN /\ pulls' = create_issue_comment(pulls, run[p].pr, "test-infra test failed")
                    /\ Goto(p, "A_create_app_interface_fork", << >>)
         ELSE Raise(p, "GithubException") /\ UNCHANGED pulls
    /\ UNCHANGED <<call, merge_call, runs, jira, default_ocp_versions, github_branches, builds,
                   gitlab_forks, gitlab_branches>>

\* test_changes, line 166, then main line 146 with test_success false: main ends
A_comment_failed(p) ==
    /\ At(p, "A_comment_failed")
    /\ \E ok \in BOOLEAN :
         IF ok THEN /\ pulls' = create_issue_comment(pulls, run[p].pr, "test-infra test failed")
                    /\ Return(p)
         ELSE Raise(p, "GithubException") /\ UNCHANGED pulls
    /\ UNCHANGED <<call, merge_call, runs, jira, default_ocp_versions, github_branches, builds,
                   gitlab_forks, gitlab_branches>>

\* the Jenkins build ends with a result
JobFinishes ==
    /\ \E n \in 1..Len(builds), r \in JobResults :
         /\ builds[n].result = ""
         /\ builds' = [builds EXCEPT ![n].result = r]
    /\ UNCHANGED <<call, merge_call, run, runs, jira, default_ocp_versions, github_branches, pulls,
                   gitlab_forks, gitlab_branches>>

\* A human moves a ticket to another status; a resolved ticket stays resolved.
\* A run reads the statuses only in the search that opens it, so a move made
\* while a run is under way is taken here as made once that run has ended:
\* the process has exited and its locals are gone.
HumanMovesTicket ==
    /\ \A p \in Procs : Finished(p)
    /\ \E key \in 1..Len(jira), st \in Statuses :
         /\ Unresolved(jira[key])
         /\ st # jira[key].status
         /\ jira' = [jira EXCEPT ![key].status = st]
    /\ run' = [p \in Procs |-> [IdleRun EXCEPT !.variant = run[p].variant]]
    /\ UNCHANGED <<call, merge_call, runs, default_ocp_versions, github_branches, pulls, builds,
                   gitlab_forks, gitlab_branches>>

\* ------------------------------------------------------------ config merge
\* target_environments, in the order the dict is written
A_target_environments ==
    <<[environment |-> "integration", ref |-> REF_INTEGRATION],
      [environment |-> "integration-v3", ref |-> REF_INTEGRATION_V3],
      [environment |-> "staging", ref |-> REF_STAGE],
      [environment |-> "production", ref |-> REF_PRODUCTION]>>
B_target_environments ==
    <<[environment |-> "integration", ref |-> REF_INTEGRATION],
      [environment |-> "staging", ref |-> REF_STAGE],
      [environment |-> "production", ref |-> REF_PRODUCTION]>>

EXCLUDED_ENVIRONMENTS == {"integration-v3", "staging", "production"}
APP_INTERFACE_VERSIONS_OVERRIDE_EXCLUDED_ENVIRONMENTS == {"integration", "staging", "production"}

\* custom_openshift_images.json["single-node-alpha"]
SINGLE_NODE_ALPHA == VersionEntry("4.8.0-single-node-alpha", "4.8.0", "48.83.0")

\* versions["4.8"] = custom_images["single-node-alpha"]
add_single_node_fake_4_8_release_image(openshift_versions_json) ==
    [l \in DOMAIN openshift_versions_json \cup {"4.8"} |->
        IF l = "4.8" THEN SINGLE_NODE_ALPHA ELSE openshift_versions_json[l]]

\* next(target for target in targets if target["namespace"] == {"$ref": ref}):
\* the index of the first such target, 0 when next() raises StopIteration
first_target(targets, ref) ==
    LET hits == {i \in 1..Len(targets) : targets[i].namespace = ref}
    IN  IF hits = {} THEN 0 ELSE CHOOSE i \in hits : \A j \in hits : i <= j

\* seeded fault: the exclusion set is not consulted
skipped_never(environment, excluded) ==
    FALSE

\* whether the loop skips an environment
skipped(environment, excluded) ==
    environment \in excluded

RECURSIVE merge_loop(_, _, _, _, _, _)

\* seeded fault: a target is appended for the environment instead of the
\* environment's target being updated in place
merge_loop_appends(targets, environments, i, excluded, value, changed) ==
    IF i > Len(environments) THEN [targets |-> targets, changed |-> changed, error |-> ""]
    ELSE IF skipped(environments[i].environment, excluded)
         THEN merge_loop(targets, environments, i + 1, excluded, value, changed)
    ELSE merge_loop(Append(targets, Target(environments[i].ref, value)),
                    environments, i + 1, excluded, value, TRUE)

\* the loop over target_environments from entry i on: the targets as mutated,
\* whether an environment qualified, and the exception that ended the loop
merge_loop(targets, environments, i, excluded, value, changed) ==
    IF i > Len(environments) THEN [targets |-> targets, changed |-> changed, error |-> ""]
    ELSE IF skipped(environments[i].environment, excluded)
         THEN merge_loop(targets, environments, i + 1, excluded, value, changed)
    ELSE LET k == first_target(targets, environments[i].ref)
         IN  IF k = 0 THEN [targets |-> targets, changed |-> TRUE, error |-> "StopIteration"]
             ELSE merge_loop([targets EXCEPT ![k].OPENSHIFT_VERSIONS = value],
                             environments, i + 1, excluded, value, TRUE)

\* change_version_in_files_app_interface of variant A on the cloned file,
\* with `excluded` the value of the global EXCLUDED_ENVIRONMENTS it reads:
\* the file is dumped whenever the loop ends without an exception
A_change_version_in_files_app_interface(wc, openshift_versions_json, excluded) ==
    LET m == merge_loop(wc.tree, A_target_environments, 1, excluded,
                        add_single_node_fake_4_8_release_image(openshift_versions_json), FALSE)
    IN  IF m.error # "" THEN [wc |-> wc, error |-> m.error]
        ELSE [wc |-> WriteFile(wc, m.targets), error |-> ""]

\* seeded fault: the file is dumped without the test of `changed`
B_change_version_in_files_app_interface_always_dumps(wc, openshift_versions_json, excluded) ==
    LET m == merge_loop(wc.tree, B_target_environments, 1, excluded,
                        openshift_versions_json, FALSE)
    IN  IF m.error # "" THEN [wc |-> wc, changed |-> m.changed, error |-> m.error]
        ELSE [wc |-> WriteFile(wc, m.targets), changed |-> m.changed, error |-> ""]

\* change_version_in_files_app_interface of variant B, with `excluded` the
\* value of the global APP_INTERFACE_VERSIONS_OVERRIDE_EXCLUDED_ENVIRONMENTS
\* it reads: NoChangesNeeded is raised, before the dump, when no environment
\* qualified
B_change_version_in_files_app_interface(wc, openshift_versions_json, excluded) ==
    LET m == merge_loop(wc.tree, B_target_environments, 1, excluded,
                        openshift_versions_json, FALSE)
    IN  IF m.error # "" THEN [wc |-> wc, changed |-> m.changed, error |-> m.error]
        ELSE IF ~m.changed THEN [wc |-> wc, changed |-> FALSE, error |-> "NoChangesNeeded"]
        ELSE [wc |-> WriteFile(wc, m.targets), changed |-> TRUE, error |-> ""]

\* the fork of the secondary repository under the pipeline's GitLab user
USER_FORK == "user/app-interface"

\* create_app_interface_fork: forks.create({}) makes the fork; on
\* GitlabCreateError the existing project is fetched or the error re-raised,
\* by what error_message['name'] holds
A_create_app_interface_fork(p) ==
    /\ At(p, "A_create_app_interface_fork")
    /\ \E ok \in BOOLEAN :
         IF ~ok THEN Raise(p, "GitlabError") /\ UNCHANGED gitlab_forks
         ELSE /\ gitlab_forks' = gitlab_forks \cup {USER_FORK}
              /\ Goto(p, "A_clone_app_interface", [fork |-> 1])
    /\ UNCHANGED <<call, merge_call, runs, jira, default_ocp_versions, github_branches, pulls, builds,
                   gitlab_branches>>

\* update_ai_app_sre_repo_to_new_ocp_version, line 438
A_clone_app_interface(p) ==
    /\ At(p, "A_clone_app_interface")
    /\ \E ok \in BOOLEAN, saas_yaml \in SaasDocs :
         IF ok THEN Goto(p, "A_change_version_in_files_app_interface",
                         [app_interface |-> Clone(saas_yaml)])
         ELSE Raise(p, "CalledProcessError")
    /\ UNCHANGED <<call, merge_call, runs, world>>

\* update_ai_app_sre_repo_to_new_ocp_version, line 440
A_merge(p) ==
    /\ At(p, "A_change_version_in_files_app_interface")
    /\ LET m == A_change_version_in_files_app_interface(run[p].app_interface,
                                                        run[p].openshift_versions_json,
                                                        EXCLUDED_ENVIRONMENTS)
       IN  IF m.error # "" THEN Raise(p, m.error)
           ELSE Goto(p, "A_commit_and_push_app_interface", [app_interface |-> m.wc])
    /\ UNCHANGED <<call, merge_call, runs, world>>

\* commit_and_push_version_update_changes_app_interface: fetch, remote add,
\* checkout -b, commit -a (exit 1 with nothing to commit), push to the fork
A_commit_and_push_app_interface(p) ==
    /\ At(p, "A_commit_and_push_app_interface")
    /\ \E ok \in BOOLEAN :
         LET wc == run[p].app_interface
             branch == A_BRANCH_NAME(run[p].latest_ocp_version)
         IN  IF ok /\ wc.tree # wc.head
             THEN /\ gitlab_branches' = gitlab_branches \cup {branch}
                  /\ Goto(p, "A_open_app_interface_pr",
                          [app_interface |-> Commit(wc), app_interface_branch |-> branch])
             ELSE Raise(p, "CalledProcessError") /\ UNCHANGED gitlab_branches
    /\ UNCHANGED <<call, merge_call, runs, jira, default_ocp_versions, github_branches, pulls, builds,
                   gitlab_forks>>

\* open_app_interface_pr, line 475: PR_MESSAGE names {task} and format is
\* given ticket_id=task, so building the title raises KeyError before
\* mergerequests.create is called; lines 483-487 and main line 154 never run
A_open_app_interface_pr(p) ==
    /\ At(p, "A_open_app_interface_pr")
    /\ Raise(p, "KeyError")
    /\ UNCHANGED <<call, merge_call, runs, world>>

\* ---------------------------------------------------------------- variant B
\* Summary ~ "<text>" of the JQL query: on the summaries the two pipelines
\* write, only TICKET_DESCRIPTION itself holds all of its words
jql_summary_matches(summary, text) == summary = text

\* seeded fault: the query asks for every unresolved ticket
open_tickets_unresolved(tickets) ==
    {key \in 1..Len(tickets) :
        /\ Unresolved(tickets[key])
        /\ jql_summary_matches(tickets[key].summary, B_TICKET_DESCRIPTION)}

\* the issues is_open_update_version_ticket's query returns:
\* component = "Assisted-Installer CI" AND status = "TO DO" AND Summary ~ "..."
open_tickets(tickets) ==
    {key \in 1..Len(tickets) :
        /\ tickets[key].status = TODO
        /\ jql_summary_matches(tickets[key].summary, B_TICKET_DESCRIPTION)}

\* main, lines 419-422
B_is_open_update_version_ticket(p) ==
    /\ At(p, "B_is_open_update_version_ticket")
    /\ \E ok \in BOOLEAN :
         IF ~ok THEN Raise(p, "JIRAError")
         ELSE IF open_tickets(jira) # {} THEN Return(p)
         ELSE Goto(p, "B_detect", << >>)
    /\ UNCHANGED <<call, merge_call, runs, world>>

\* seeded fault: the OCP release is compared with the latest RHCOS release
ocp_update_needed_against_rhcos(release, default_version_json, dry_run) ==
    default_version_json[release].display_name
        # get_latest_release_from_minor(release, RHCOS_RELEASES_page(release)) \/ dry_run

\* main, lines 431-434: whether the loop updates the OCP release of a line
ocp_update_needed(release, default_version_json, dry_run) ==
    default_version_json[release].display_name
        # get_latest_release_from_minor(release, OCP_RELEASES_page) \/ dry_run

\* seeded fault: the pinned rhcos_version is compared with the latest RHCOS
\* release instead of the release in the pinned image URL
rhcos_update_needed_by_version(release, default_version_json, dry_run) ==
    default_version_json[release].rhcos_version
        # get_latest_release_from_minor(release, RHCOS_RELEASES_page(release)) \/ dry_run

\* main, lines 440-444: whether the loop updates the RHCOS release of a line
rhcos_update_needed(release, default_version_json, dry_run) ==
    get_rchos_release_from_default_version_json(release, default_version_json)
        # get_latest_release_from_minor(release, RHCOS_RELEASES_page(release)) \/ dry_run

\* main, lines 428-453: the set the loop leaves in updates_made
updates_made(default_version_json, dry_run) ==
    {release \in DOMAIN default_version_json :
        \/ ocp_update_needed(release, default_version_json, dry_run)
        \/ rhcos_update_needed(release, default_version_json, dry_run)}

\* seeded fault: the branch that updates the OCP release of a line also
\* rewrites its rhcos_version, from the ISO of the OCP release
updated_version_json_ocp_resets_rhcos(default_version_json, dry_run) ==
    [release \in DOMAIN default_version_json |->
        LET entry == default_version_json[release]
            latest_ocp_release == get_latest_release_from_minor(release, OCP_RELEASES_page)
            current_default_ocp_release == entry.display_name
            rhcos_default_release ==
                get_rchos_release_from_default_version_json(release, default_version_json)
            rhcos_latest_release ==
                get_latest_release_from_minor(release, RHCOS_RELEASES_page(release))
            after_ocp ==
                IF ocp_update_needed(release, default_version_json, dry_run)
                THEN [entry EXCEPT
                        !.display_name = latest_ocp_release,
                        !.rhcos_version = rchos_version_in_iso(latest_ocp_release),
                        !.release_image = [@ EXCEPT !.ocp_release =
                            replace(@, current_default_ocp_release, latest_ocp_release)]]
                ELSE entry
        IN  IF rhcos_update_needed(release, default_version_json, dry_run)
            THEN [after_ocp EXCEPT
                    !.rhcos_image = [dir  |-> replace(@.dir, rhcos_default_release, rhcos_latest_release),
                                     file |-> replace(@.file, rhcos_default_release, rhcos_latest_release)],
                    !.rhcos_version = IF dry_run THEN DRY_RUN_RHCOS_VERSION
                                      ELSE rchos_version_in_iso(rhcos_latest_release)]
            ELSE after_ocp]

\* main, lines 425-453: the map the loop leaves in updated_version_json
updated_version_json(default_version_json, dry_run) ==
    [release \in DOMAIN default_version_json |->
        LET entry == default_version_json[release]
            latest_ocp_release == get_latest_release_from_minor(release, OCP_RELEASES_page)
            current_default_ocp_release == entry.display_name
            rhcos_default_release ==
                get_rchos_release_from_default_version_json(release, default_version_json)
            rhcos_latest_release ==
                get_latest_release_from_minor(release, RHCOS_RELEASES_page(release))
            after_ocp ==
                IF ocp_update_needed(release, default_version_json, dry_run)
                THEN [entry EXCEPT
                        !.display_name = latest_ocp_release,
                        !.release_image = [@ EXCEPT !.ocp_release =
                            replace(@, current_default_ocp_release, latest_ocp_release)]]
                ELSE entry
        IN  IF rhcos_update_needed(release, default_version_json, dry_run)
            THEN [after_ocp EXCEPT
                    !.rhcos_image = [dir  |-> replace(@.dir, rhcos_default_release, rhcos_latest_release),
                                     file |-> replace(@.file, rhcos_default_release, rhcos_latest_release)],
                    !.rhcos_version = IF dry_run THEN DRY_RUN_RHCOS_VERSION
                                      ELSE rchos_version_in_iso(rhcos_latest_release)]
            ELSE after_ocp]

\* the exception get_latest_release_from_minor raises for some line, "" if none
detect_error(default_version_json) ==
    LET bad == {get_latest_release_from_minor(r, OCP_RELEASES_page) : r \in DOMAIN default_version_json}
               \cup {get_latest_release_from_minor(r, RHCOS_RELEASES_page(r)) : r \in DOMAIN default_version_json}
    IN  IF "IndexError" \in bad THEN "IndexError"
        ELSE IF "TypeError" \in bad THEN "TypeError" ELSE ""

\* main, lines 424-459: the documents are fetched, the loop over the release
\* lines runs, and main branches on updates_made and on dry_run
B_detect(p) ==
    /\ At(p, "B_detect")
    /\ \E res \in Responses :
         LET default_version_json == default_ocp_versions
             dry_run == run[p].dry_run
             made == updates_made(default_version_json, dry_run)
             found == [default_version_json |-> default_version_json,
                       updated_version_json |-> updated_version_json(default_version_json, dry_run),
                       updates_made |-> made]
         IN  IF res = "not ok" THEN Raise(p, "RuntimeError")
             ELSE IF res = "not json" THEN Raise(p, "JSONDecodeError")
             ELSE IF detect_error(default_version_json) # ""
                  THEN Raise(p, detect_error(default_version_json))
             ELSE IF made = {} THEN Goto(p, "done", found)
             ELSE IF dry_run
                  THEN Goto(p, "B_clone_assisted_service", found @@ [task |-> TEST_8888])
             ELSE Goto(p, "B_create_issue", found @@ [ticket_text |-> B_TICKET_DESCRIPTION])
    /\ UNCHANGED <<call, merge_call, runs, world>>

\* create_jira_ticket, lines 191-197: the issue is created without a search
B_create_issue(p) ==
    /\ At(p, "B_create_issue")
    /\ \E ok \in BOOLEAN :
         IF ok THEN /\ jira' = Append(jira, NewIssue(run[p].ticket_text))
                    /\ Goto(p, "B_assign_issue", [task |-> Len(jira) + 1])
         ELSE /\ Raise(p, "JIRAError")
              /\ UNCHANGED jira
    /\ UNCHANGED <<call, merge_call, runs, default_ocp_versions, github_branches, pulls, builds,
                   gitlab_forks, gitlab_branches>>

\* create_jira_ticket, lines 198-202: the ticket is assigned and returned;
\* the add_watchers call is commented out
B_assign_issue(p) ==
    /\ At(p, "B_assign_issue")
    /\ \E ok \in BOOLEAN :
         IF ok THEN /\ jira' = assign_issue(jira, run[p].task, B_DEFAULT_ASSIGN)
                    /\ Goto(p, "B_clone_assisted_service", << >>)
         ELSE /\ Raise(p, "JIRAError")
              /\ UNCHANGED jira
    /\ UNCHANGED <<call, merge_call, runs, default_ocp_versions, github_branches, pulls, builds,
                   gitlab_forks, gitlab_branches>>

\* main, line 463
B_clone_assisted_service(p) ==
    /\ At(p, "B_clone_assisted_service")
    /\ \E ok \in BOOLEAN :
         IF ok THEN Goto(p, "B_write_versions", [assisted_service |-> Clone(default_ocp_versions)])
         ELSE Raise(p, "CalledProcessError")
    /\ UNCHANGED <<call, merge_call, runs, world>>

\* seeded fault: main goes on after the verification on a dry run too
B_write_versions_no_return(p) ==
    /\ At(p, "B_write_versions")
    /\ \E returncode \in MakeExitCodes, regenerated \in BOOLEAN :
         LET wc == WriteFile(run[p].assisted_service, run[p].updated_version_json)
             template == IF returncode = 0 \/ regenerated THEN wc.tree ELSE wc.head
         IN  IF verify_raises(returncode)
             THEN Goto(p, "aborted", [error |-> "CalledProcessError",
                                      assisted_service |-> wc,
                                      returncode |-> <<returncode>>])
             ELSE Goto(p, "B_clone_app_interface",
                       [assisted_service |-> wc, openshift_versions_json |-> template,
                        returncode |-> <<returncode>>])
    /\ UNCHANGED <<call, merge_call, runs, world>>

\* main, lines 465-470: the updated map is dumped into the clone and
\* verify_latest_config regenerates the template from it; a dry run ends here.
\* After exit code 2 the template holds the new map or the one it had.
B_write_versions(p) ==
    /\ At(p, "B_write_versions")
    /\ \E returncode \in MakeExitCodes, regenerated \in BOOLEAN :
         LET wc == WriteFile(run[p].assisted_service, run[p].updated_version_json)
             template == IF returncode = 0 \/ regenerated THEN wc.tree ELSE wc.head
         IN  IF verify_raises(returncode)
             THEN Goto(p, "aborted", [error |-> "CalledProcessError",
                                      assisted_service |-> wc,
                                      returncode |-> <<returncode>>])
             ELSE Goto(p, IF run[p].dry_run THEN "done" ELSE "B_clone_app_interface",
                       [assisted_service |-> wc, openshift_versions_json |-> template,
                        returncode |-> <<returncode>>])
    /\ UNCHANGED <<call, merge_call, runs, world>>

\* main, lines 472-476: clone_app_interface, then OPENSHIFT_VERSIONS is read
\* from the template
B_clone_app_interface(p) ==
    /\ At(p, "B_clone_app_interface")
    /\ \E ok \in BOOLEAN, saas_yaml \in SaasDocs :
         IF ok THEN Goto(p, "B_commit_and_push", [app_interface |-> Clone(saas_yaml)])
         ELSE Raise(p, "CalledProcessError")
    /\ UNCHANGED <<call, merge_call, runs, world>>

\* commit_and_push_version_update_changes(task): commit -a (exit 1 with
\* nothing to commit), a second commit when status is not empty, push
B_commit_and_push(p) ==
    /\ At(p, "B_commit_and_push")
    /\ \E ok \in BOOLEAN, dirty \in BOOLEAN :
         LET wc == run[p].assisted_service
             branch == B_BRANCH_NAME(run[p].task)
         IN  IF ok /\ wc.tree # wc.head
             THEN /\ github_branches' = github_branches \cup {branch}
                  /\ Goto(p, "B_create_pull",
                          [assisted_service |-> IF dirty THEN Commit(Commit(wc)) ELSE Commit(wc),
                           branch |-> branch])
             ELSE Raise(p, "CalledProcessError") /\ UNCHANGED github_branches
    /\ UNCHANGED <<call, merge_call, runs, jira, default_ocp_versions, pulls, builds,
                   gitlab_forks, gitlab_branches>>

\* open_pr, lines 254-265
B_create_pull(p) ==
    /\ At(p, "B_create_pull")
    /\ \E ok \in BOOLEAN :
         IF ~ok THEN Raise(p, "GithubException") /\ UNCHANGED pulls
         ELSE /\ pulls' = Append(pulls, NewPull(B_BRANCH_NAME(run[p].task), run[p].task))
              /\ Goto(p, "B_hold_pr", [pr |-> Len(pulls) + 1])
    /\ UNCHANGED <<call, merge_call, runs, jira, default_ocp_versions, github_branches, builds,
                   gitlab_forks, gitlab_branches>>

\* open_pr, line 266: hold_pr(pr)
B_hold_pr(p) ==
    /\ At(p, "B_hold_pr")
    /\ \E ok \in BOOLEAN :
         IF ok THEN /\ pulls' = create_issue_comment(pulls, run[p].pr, HOLD)
                    /\ Goto(p, "B_comment_no_test_platform", << >>)
         ELSE Raise(p, "GithubException") /\ UNCHANGED pulls
    /\ UNCHANGED <<call, merge_call, runs, jira, default_ocp_versions, github_branches, builds,
                   gitlab_forks, gitlab_branches>>

\* main, line 480
B_comment_no_test_platform(p) ==
    /\ At(p, "B_comment_no_test_platform")
    /\ \E ok \in BOOLEAN :
         IF ok THEN /\ pulls' = create_issue_comment(pulls, run[p].pr, NO_TEST_PLATFORM)
                    /\ Goto(p, "B_unhold_pr", << >>)
         ELSE Raise(p, "GithubException") /\ UNCHANGED pulls
    /\ UNCHANGED <<call, merge_call, runs, jira, default_ocp_versions, github_branches, builds,
                   gitlab_forks, gitlab_branches>>

\* main, line 481: unhold_pr(github_pr)
B_unhold_pr(p) ==
    /\ At(p, "B_unhold_pr")
    /\ \E ok \in BOOLEAN :
         IF ok THEN /\ pulls' = create_issue_comment(pulls, run[p].pr, UNHOLD)
                    /\ Goto(p, "B_change_version_in_files_app_interface", << >>)
         ELSE Raise(p, "GithubException") /\ UNCHANGED pulls
    /\ UNCHANGED <<call, merge_call, runs, jira, default_ocp_versions, github_branches, builds,
                   gitlab_forks, gitlab_branches>>

\* main, lines 483-493: the try statement around the merge; with the
\* exclusion set of line 53 no environment qualifies, so the else branch
\* (fork, commit, merge request, the two comments) is never entered
B_merge(p) ==
    /\ At(p, "B_change_version_in_files_app_interface")
    /\ LET m == B_change_version_in_files_app_interface(run[p].app_interface,
                                                        run[p].openshift_versions_json,
                                                        APP_INTERFACE_VERSIONS_OVERRIDE_EXCLUDED_ENVIRONMENTS)
       IN  IF m.error = "NoChangesNeeded"
           THEN Goto(p, "B_except_NoChangesNeeded",
                     [app_interface |-> m.wc, changed |-> m.changed])
           ELSE IF m.error # "" THEN Goto(p, "aborted", [error |-> m.error, changed |-> m.changed])
           ELSE Goto(p, "B_create_app_interface_fork",
                     [app_interface |-> m.wc, changed |-> m.changed])
    /\ UNCHANGED <<call, merge_call, runs, world>>

\* seeded fault: the body of the else branch (line 488 on) is run after the
\* except branch too
B_except_NoChangesNeeded_then_forks(p) ==
    /\ At(p, "B_except_NoChangesNeeded")
    /\ gitlab_forks' = gitlab_forks \cup {USER_FORK}
    /\ Goto(p, "done", [fork |-> 1, error |-> ""])
    /\ UNCHANGED <<call, merge_call, runs, jira, default_ocp_versions, github_branches, pulls, builds,
                   gitlab_branches>>

\* seeded fault: the except branch resolves the tracking ticket
B_except_NoChangesNeeded_resolves_ticket(p) ==
    /\ At(p, "B_except_NoChangesNeeded")
    /\ jira' = [jira EXCEPT ![run[p].task].status = "DONE"]
    /\ Return(p)
    /\ UNCHANGED <<call, merge_call, runs, default_ocp_versions, github_branches, pulls, builds,
                   gitlab_forks, gitlab_branches>>

\* main, lines 485-486: `except NoChangesNeeded: pass`, and main ends
B_except_NoChangesNeeded(p) ==
    /\ At(p, "B_except_NoChangesNeeded")
    /\ Return(p)
    /\ UNCHANGED <<call, merge_call, runs, world>>

\* ------------------------------------------------------------ specification
Step(p) ==
    \/ StartRun(p)
    \/ A_get_default_ocp_version(p)
    \/ A_search_issues(p)
    \/ A_create_issue(p)
    \/ A_assign_issue(p)
    \/ A_add_watchers(p)
    \/ A_clone_assisted_service(p)
    \/ A_change_version_in_files(p)
    \/ A_commit(p)
    \/ A_verify_latest_onprem_config(p)
    \/ A_commit_onprem_config(p)
    \/ A_push(p)
    \/ A_create_pull(p)
    \/ A_hold_pr(p)
    \/ A_get_job_info(p)
    \/ A_build_job(p)
    \/ A_wait_for_job(p)
    \/ A_unhold_pr(p)
    \/ A_comment_passed(p)
    \/ A_comment_failed(p)
    \/ A_create_app_interface_fork(p)
    \/ A_clone_app_interface(p)
    \/ A_merge(p)
    \/ A_commit_and_push_app_interface(p)
    \/ A_open_app_interface_pr(p)
    \/ B_is_open_update_version_ticket(p)
    \/ B_detect(p)
    \/ B_create_issue(p)
    \/ B_assign_issue(p)
    \/ B_clone_assisted_service(p)
    \/ B_write_versions(p)
    \/ B_clone_app_interface(p)
    \/ B_commit_and_push(p)
    \/ B_create_pull(p)
    \/ B_hold_pr(p)
    \/ B_comment_no_test_platform(p)
    \/ B_unhold_pr(p)
    \/ B_merge(p)
    \/ B_except_NoChangesNeeded(p)

\* runs of the pipeline that do not overlap (the scheduled deployment), the
\* CI reporting results and humans working the tickets in between
Next ==
    \/ \E p \in SeqProcs : Step(p)
    \/ JobFinishes
    \/ HumanMovesTicket

Spec == Init /\ [][Next]_vars

\* test_test_infra_passes polls in a loop (`while not ...["result"]`, sleeping
\* 30 seconds): as long as the process is at the loop the poll is taken again
PollingSpec == Spec /\ \A p \in SeqProcs : WF_vars(A_wait_for_job(p))

\* Nothing keeps two invocations of a script apart (it takes no lock and
\* keeps no state of its own): two processes started by hand or by two
\* schedulers run at the same time, their calls interleaved.  Each is
\* followed here from its start to the creation of its ticket.
ConcurrentNext ==
    \E p \in Procs :
        \/ StartRun(p)
        \/ A_get_default_ocp_version(p)
        \/ A_search_issues(p)
        \/ A_create_issue(p)
        \/ B_is_open_update_version_ticket(p)
        \/ B_detect(p)
        \/ B_create_issue(p)

ConcurrentSpec == Init /\ [][ConcurrentNext]_vars

\* ------------------------------------------- the config merge on its own
\* change_version_in_files_app_interface is a function of the file it reads,
\* its argument and the module's exclusion set.  Here it is called, again and
\* again with the same argument, on files and exclusion sets of every shape:
\* targets in any order, missing, or sharing a namespace.
MaxTargets == 2
MaxCalls == 2

ENVIRONMENTS == {"integration", "integration-v3", "staging", "production"}

MergeDocs ==
    UNION {[1..k -> {Target(ref, OLD_VERSIONS) :
                        ref \in {REF_INTEGRATION, REF_INTEGRATION_V3, REF_STAGE,
                                 REF_PRODUCTION, REF_OTHER}}] : k \in 0..MaxTargets}

MergeInit ==
    /\ run = [p \in Procs |-> IdleRun]
    /\ runs = 0
    /\ jira = <<>>
    /\ default_ocp_versions = OLD_VERSIONS
    /\ github_branches = {}
    /\ pulls = <<>>
    /\ builds = <<>>
    /\ gitlab_forks = {}
    /\ gitlab_branches = {}
    /\ call = NoCall
    /\ \E variant \in {"A", "B"}, excluded \in SUBSET ENVIRONMENTS,
          openshift_versions_json \in PinnedDocs, doc \in MergeDocs :
         merge_call = [NoMergeCall EXCEPT !.variant = variant, !.excluded = excluded,
                          !.openshift_versions_json = openshift_versions_json,
                          !.wc = Clone(doc)]

\* the outcome m of one more call is recorded
Called(m) ==
    merge_call' = [merge_call EXCEPT !.wc = m.wc,
                                     !.trees = Append(@, m.wc.tree),
                                     !.errors = Append(@, m.error)]

A_call_merge ==
    /\ merge_call.variant = "A"
    /\ Len(merge_call.trees) < MaxCalls
    /\ Called(A_change_version_in_files_app_interface(
                  merge_call.wc, merge_call.openshift_versions_json, merge_call.excluded))
    /\ UNCHANGED <<call, run, runs, world>>

B_call_merge ==
    /\ merge_call.variant = "B"
    /\ Len(merge_call.trees) < MaxCalls
    /\ Called(B_change_version_in_files_app_interface(
                  merge_call.wc, merge_call.openshift_versions_json, merge_call.excluded))
    /\ UNCHANGED <<call, run, runs, world>>

MergeNext ==
    \/ A_call_merge
    \/ B_call_merge

MergeSpec == MergeInit /\ [][MergeNext]_vars

\* ------------------------------------------- functions called on their own
\* The content of a file is a text.  A text is spelled here with the
\* characters the two patterns of REPLACE_CONTEXT are made of: the double
\* quote, the characters of the versions, and "ocp-release:" taken as one
\* character (it holds no quote and no version character, and no proper
\* prefix of it is a suffix of it, so a match never cuts through it).
MaxContent == 5
MaxReleases == 3        \* entries of a list of releases

\* REPLACE_CONTEXT formatted with a version
REPLACE_CONTEXT(ocp_version) ==
    << <<"\"">> \o ocp_version \o <<"\"">>, <<"ocp-release:">> \o ocp_version >>

RECURSIVE str_replace(_, _, _)

\* seeded fault: only the first occurrence is replaced (str.replace(old, new, 1))
str_replace_first(content, old, new) ==
    IF Len(content) < Len(old) THEN content
    ELSE IF SubSeq(content, 1, Len(old)) = old
         THEN new \o SubSeq(content, Len(old) + 1, Len(content))
    ELSE <<Head(content)>> \o str_replace(Tail(content), old, new)

\* str.replace(old, new) for a non-empty old: the occurrences are taken from
\* left to right, each search starting after the previous occurrence
str_replace(content, old, new) ==
    IF Len(content) < Len(old) THEN content
    ELSE IF SubSeq(content, 1, Len(old)) = old
         THEN new \o str_replace(SubSeq(content, Len(old) + 1, Len(content)), old, new)
    ELSE <<Head(content)>> \o str_replace(Tail(content), old, new)

\* the loop over REPLACE_CONTEXT on the content of one file
change_version_in_text(content, old_version, new_version) ==
    LET quoted == str_replace(content, REPLACE_CONTEXT(old_version)[1],
                              REPLACE_CONTEXT(new_version)[1])
    IN  str_replace(quoted, REPLACE_CONTEXT(old_version)[2], REPLACE_CONTEXT(new_version)[2])

\* a call of change_version_in_files with two different versions of one or two
\* characters on a file of up to MaxContent characters, or a call of
\* get_latest_release_from_minor with a release line and a list of up to
\* MaxReleases names as the mirror's index pages hold them; main has not started
FunctionInit ==
    /\ run = [p \in Procs |-> IdleRun]
    /\ runs = 0
    /\ jira = <<>>
    /\ default_ocp_versions = OLD_VERSIONS
    /\ github_branches = {}
    /\ pulls = <<>>
    /\ builds = <<>>
    /\ gitlab_forks = {}
    /\ gitlab_branches = {}
    /\ merge_call = NoMergeCall
    /\ LET versions == UNION {[1..k -> {"4", "6"}] : k \in 1..2}
           contents == UNION {[1..k -> {"\"", "ocp-release:", "4", "6"}] : k \in 0..MaxContent}
           lists == UNION {[1..k -> {"4.1.5", "4.10.0", "4.6.8", "4.6.9", "4.7.0-rc.1",
                                     "4.7.1", "latest"}] : k \in 0..MaxReleases}
       IN  \/ \E content \in contents, old_version \in versions, new_version \in versions :
                /\ old_version # new_version
                /\ call = [function |-> "change_version_in_files",
                           args |-> <<content, old_version, new_version>>, returned |-> <<>>]
           \/ \E minor_release \in {"4.1", "4.6", "4.7"}, all_releases \in lists :
                call = [function |-> "get_latest_release_from_minor",
                        args |-> <<minor_release, all_releases>>, returned |-> <<>>]

change_version_in_files_call ==
    /\ call.function = "change_version_in_files"
    /\ call.returned = <<>>
    /\ call' = [call EXCEPT !.returned =
                    <<change_version_in_text(call.args[1], call.args[2], call.args[3])>>]
    /\ UNCHANGED <<run, runs, world, merge_call>>

get_latest_release_from_minor_call ==
    /\ call.function = "get_latest_release_from_minor"
    /\ call.returned = <<>>
    /\ call' = [call EXCEPT !.returned =
                    <<get_latest_release_from_minor(call.args[1], call.args[2])>>]
    /\ UNCHANGED <<run, runs, world, merge_call>>

FunctionNext ==
    \/ change_version_in_files_call
    \/ get_latest_release_from_minor_call

FunctionSpec == FunctionInit /\ [][FunctionNext]_vars

\* ================================================================ properties
\* create_jira_ticket in runner p's main has created its ticket
returned_ticket(p) ==
    run[p].pc \notin {"idle", "aborted"} /\ ~run[p].dry_run /\ run[p].task # NoTask

\* variant A's create_jira_ticket has returned None in runner p's main
A_returned_None(p) ==
    /\ run[p].variant = "A" /\ run[p].pc = "done" /\ run[p].task = NoTask
    /\ run[p].ticket_text # IdleRun.ticket_text

C2_at_most_one_open_ticket ==
    \A k1, k2 \in DOMAIN jira :
        jira[k1].summary = jira[k2].summary /\ Unresolved(jira[k1]) /\ Unresolved(jira[k2])
            => k1 = k2

\* ------------------------------------------------------------------------ C3
\* the pull request of runner p's main, once it is created
has_pull(p) == run[p].pr \in DOMAIN pulls

\* the build runner p's main triggered has ended with `SUCCESS`
own_build_succeeded(p) ==
    /\ run[p].next_build_number \in DOMAIN builds
    /\ builds[run[p].next_build_number].branch = pulls[run[p].pr].head
    /\ builds[run[p].next_build_number].result = SUCCESS

hold_issued(pull) == \E i \in DOMAIN pull.comments : pull.comments[i] = HOLD
unhold_issued(pull) == \E i \in DOMAIN pull.comments : pull.comments[i] = UNHOLD

\* C3 (as the code has it): in variant A '/unhold' is issued on a pull
\* request only after the job the run triggered for its branch has ended with
\* "SUCCESS"; after any other result, and while no job has ended, a pull
\* request that was put on hold stays held.  Variant B triggers no job: it
\* issues '/unhold' right after the hold and the comment that no test
\* platform is available.
C3_unhold ==
    \A p \in SeqProcs :
        /\ run[p].variant = "A" =>
              /\ has_pull(p) /\ unhold_issued(pulls[run[p].pr]) => own_build_succeeded(p)
              /\ has_pull(p) /\ hold_issued(pulls[run[p].pr]) /\ ~own_build_succeeded(p)
                    => Held(pulls[run[p].pr])
              /\ \A n \in DOMAIN pulls :
                    /\ unhold_issued(pulls[n]) =>
                          \E b \in DOMAIN builds :
                              builds[b].branch = pulls[n].head /\ builds[b].result = SUCCESS
                    /\ hold_issued(pulls[n]) /\ ~unhold_issued(pulls[n]) => Held(pulls[n])
        /\ run[p].variant = "B" =>
              /\ builds = <<>>
              /\ \A n \in DOMAIN pulls : \A i \in DOMAIN pulls[n].comments :
                    pulls[n].comments[i] = UNHOLD =>
                        /\ i = 3
                        /\ pulls[n].comments[1] = HOLD
                        /\ pulls[n].comments[2] = NO_TEST_PLATFORM

\* C3's case: a pull request of variant A is unheld, its job having succeeded
C3_witness ==
    \E p \in SeqProcs :
        /\ run[p].variant = "A" /\ has_pull(p)
        /\ unhold_issued(pulls[run[p].pr]) /\ own_build_succeeded(p)
        /\ ~Held(pulls[run[p].pr])

\* C3 as stated, for both variants: '/unhold' is on a pull request only when
\* a job for its branch has ended with "SUCCESS"
C3_unhold_only_after_success ==
    \A n \in DOMAIN pulls :
        unhold_issued(pulls[n]) =>
            \E b \in DOMAIN builds :
                builds[b].branch = pulls[n].head /\ builds[b].result = SUCCESS

\* ------------------------------------------------------------------------ C4
\* the number of comments of a pull with the given text
count_comments(pull, text) ==
    Cardinality({i \in DOMAIN pull.comments : pull.comments[i] = text})

\* runner p's main has seen its validation job end with a result other than "SUCCESS"
test_failed(p) ==
    run[p].variant = "A" /\ run[p].result # "" /\ run[p].result # SUCCESS

C5_hold_first ==
    /\ \A n \in DOMAIN pulls : pulls[n].comments # <<>> => pulls[n].comments[1] = HOLD
    /\ \A p \in SeqProcs :
          has_pull(p) /\ ~hold_issued(pulls[run[p].pr]) =>
              /\ run[p].pc \in {"A_hold_pr", "B_hold_pr", "aborted"}
              /\ run[p].next_build_number = 0 /\ run[p].fork = 0
    /\ \A b \in DOMAIN builds :
          \E n \in DOMAIN pulls : pulls[n].head = builds[b].branch /\ hold_issued(pulls[n])

\* C5's case: a validation job is triggered, on a pull request that holds
\* nothing but its '/hold'
C5_witness ==
    \E p \in SeqProcs :
        /\ has_pull(p) /\ pulls[run[p].pr].comments = <<HOLD>>
        /\ run[p].next_build_number \in DOMAIN builds

\* ------------------------------------------------------------------------ C6
\* no external system holds anything a run wrote
nothing_written == external = << <<>>, {}, <<>>, <<>>, {}, {} >>

\* what the mirror's index pages give as the latest release of each line
latest_ocp_release == [l \in Lines |-> get_latest_release_from_minor(l, OCP_RELEASES_page)]
rhcos_latest_release == [l \in Lines |-> get_latest_release_from_minor(l, RHCOS_RELEASES_page(l))]

\* the pinned document equals the latest on every attribute the deployed
\* variant tracks: variant A tracks the OCP release of the line of its latest
\* version, variant B the OCP and the RHCOS release of every line
pinned_is_latest ==
    \A p \in SeqProcs :
        IF run[p].variant = "A"
        THEN default_ocp_versions[rsplit_dot(A_LATEST_OCP_VERSION)].release_image.ocp_release
                 = A_LATEST_OCP_VERSION
        ELSE \A l \in DOMAIN default_ocp_versions :
                /\ default_ocp_versions[l].display_name = latest_ocp_release[l]
                /\ default_ocp_versions[l].rhcos_image.dir = rhcos_latest_release[l]

\* runner p's main has read the pinned document and compared it
compared(p) ==
    IF run[p].variant = "A" THEN run[p].current_version # ""
    ELSE run[p].default_version_json = default_ocp_versions

\* C6 (as the code has it): when the pinned values equal the latest ones, no
\* run writes to an external system.  A run without --dry-run finds no drift
\* and returns once its reads went through (a failing read aborts it); a
\* --dry-run run of variant B puts every line in its update set all the same
\* and ends after patching its local copy.
C6_no_drift_no_writes ==
    pinned_is_latest =>
        /\ nothing_written
        /\ \A p \in SeqProcs :
              /\ run[p].task \in {NoTask, TEST_8888} /\ run[p].pr = 0
              /\ ~run[p].dry_run =>
                    /\ run[p].updates_made = {} /\ run[p].ticket_text = IdleRun.ticket_text
                    /\ ~run[p].assisted_service.cloned
                    /\ compared(p) => run[p].pc = "done"
                    /\ run[p].pc = "aborted" =>
                          run[p].error \in {"RuntimeError", "JSONDecodeError", "JIRAError"}
              /\ run[p].dry_run /\ compared(p) =>
                    /\ run[p].updates_made = DOMAIN default_ocp_versions
                    /\ run[p].task = TEST_8888

\* C6's case: a run without --dry-run has compared equal values and returned
C6_witness ==
    \E p \in SeqProcs :
        /\ pinned_is_latest /\ ~run[p].dry_run /\ compared(p) /\ run[p].pc = "done"
        /\ run[p].variant = "B" /\ runs = 2

\* C6 as stated: with the pinned values equal to the latest ones the set of
\* updates is empty, nothing is written and the run returns
C6_drift_set_empty ==
    \A p \in SeqProcs :
        pinned_is_latest /\ compared(p) =>
            run[p].updates_made = {} /\ nothing_written /\ run[p].pc = "done"

\* ------------------------------------------------------------------------ C7
\* an unresolved ticket other than the run's own carries the run's summary
other_open_ticket(p) ==
    \E k \in DOMAIN jira :
        /\ k # run[p].task
        /\ jira[k].summary = run[p].ticket_text
        /\ Unresolved(jira[k])

\* C7: a run without --dry-run that meets an open ticket with its summary
\* creates no ticket, clones nothing, pushes no branch, opens no pull request
C7_open_ticket_stops_run ==
    \A p \in SeqProcs :
        ~run[p].dry_run /\ other_open_ticket(p) =>
            /\ run[p].task = NoTask
            /\ ~run[p].assisted_service.cloned
            /\ run[p].branch = NoBranch
            /\ run[p].pr = 0

\* ------------------------------------------------------------------------ C8
\* a ticket other than the run's own carries the summary, in one of `statuses`
other_ticket(p, summary, statuses) ==
    \E k \in DOMAIN jira :
        k # run[p].task /\ jira[k].summary = summary /\ jira[k].status \in statuses

\* main has returned without asking for a ticket, the drift being there
suppressed(p) ==
    /\ ~run[p].dry_run /\ run[p].pc = "done" /\ run[p].task = NoTask
    /\ IF run[p].variant = "A" THEN run[p].current_version # run[p].latest_ocp_version
       ELSE ~compared(p)

\* C8 (as the code has it): variant A creates the ticket when the drift is
\* there and no ticket of the component has the summary, in any status: a
\* resolved ticket suppresses the creation as an open one does.  Variant B
\* creates it when the drift is there and no ticket with the summary is in
\* status "TO DO": a ticket in any other status, resolved or not, does not
\* suppress it.
C8_ticket_creation ==
    \A p \in SeqProcs :
        /\ run[p].variant = "A" =>
              /\ run[p].pc = "A_create_issue" \/ returned_ticket(p) =>
                    /\ run[p].current_version # run[p].latest_ocp_version
                    /\ ~other_ticket(p, run[p].ticket_text, Statuses)
              /\ suppressed(p) => other_ticket(p, run[p].ticket_text, Statuses)
        /\ run[p].variant = "B" =>
              /\ run[p].pc = "B_create_issue" \/ returned_ticket(p) =>
                    /\ run[p].updates_made # {}
                    /\ ~other_ticket(p, B_TICKET_DESCRIPTION, {TODO})
              /\ suppressed(p) => other_ticket(p, B_TICKET_DESCRIPTION, {TODO})
              /\ ~run[p].dry_run /\ run[p].pc = "done" /\ run[p].task = NoTask /\ compared(p)
                    => run[p].updates_made = {}

\* C8's case: variant A returns without a ticket, the only ticket with the
\* summary being resolved
C8_witness ==
    \E p \in SeqProcs :
        /\ run[p].variant = "A" /\ suppressed(p)
        /\ ~other_ticket(p, run[p].ticket_text, {s \in Statuses : s # "DONE"})

\* C8 as stated: only unresolved tickets suppress the creation
C8_only_open_tickets_count ==
    \A p \in SeqProcs :
        suppressed(p) =>
            \E k \in DOMAIN jira :
                /\ Unresolved(jira[k])
                /\ jira[k].summary = IF run[p].variant = "A" THEN run[p].ticket_text
                                                              ELSE B_TICKET_DESCRIPTION

\* ------------------------------------------------------------------------ C9
\* every environment the merge of the deployed variant targets is excluded
all_targets_excluded(p) ==
    IF run[p].variant = "A"
    THEN \A i \in DOMAIN A_target_environments :
            A_target_environments[i].environment \in EXCLUDED_ENVIRONMENTS
    ELSE \A i \in DOMAIN B_target_environments :
            B_target_environments[i].environment
                \in APP_INTERFACE_VERSIONS_OVERRIDE_EXCLUDED_ENVIRONMENTS

\* runner p's main is past the call of the merge
past_merge(p) ==
    run[p].pc \in {"A_commit_and_push_app_interface", "A_open_app_interface_pr",
                   "B_except_NoChangesNeeded", "B_create_app_interface_fork"}
    \/ (run[p].pc = "done" /\ has_pull(p) /\ unhold_issued(pulls[run[p].pr]))

\* C9: with every target environment excluded the merge ends in
\* NoChangesNeeded with `changed` false, the document of the working copy is
\* the one that was cloned, the file was not written, nothing was committed
\* and nothing was pushed to the secondary repository
C9_no_changes_needed ==
    \A p \in SeqProcs :
        all_targets_excluded(p) =>
            /\ run[p].app_interface.writes = 0 /\ run[p].app_interface.commits = 0
            /\ run[p].app_interface.tree = run[p].app_interface.head
            /\ run[p].app_interface.cloned => run[p].app_interface.tree \in SaasDocs
            /\ ~run[p].changed
            /\ run[p].fork = 0 /\ run[p].app_interface_branch = NoBranch
            /\ gitlab_forks = {} /\ gitlab_branches = {}
            /\ past_merge(p) => run[p].pc \in {"B_except_NoChangesNeeded", "done"}

\* C9's case: the merge of variant B has raised NoChangesNeeded
C9_witness ==
    \E p \in SeqProcs :
        /\ all_targets_excluded(p) /\ run[p].pc = "B_except_NoChangesNeeded"
        /\ run[p].app_interface.cloned /\ run[p].app_interface.writes = 0

\* ----------------------------------------------------------------------- C10
\* the value variant A's merge writes for the map it is handed: the map with
\* the single-node-alpha entry under "4.8"
with_fake_4_8(json, value) ==
    /\ DOMAIN value = DOMAIN json \cup {"4.8"}
    /\ value["4.8"] = SINGLE_NODE_ALPHA
    /\ \A l \in DOMAIN json \ {"4.8"} : value[l] = json[l]

\* the entry of the document variant A's merge writes: the first one of
\* integration's namespace, the only environment it targets and does not exclude
A_written_entry(targets) ==
    {i \in DOMAIN targets :
        /\ targets[i].namespace = REF_INTEGRATION
        /\ \A j \in 1..(i - 1) : targets[j].namespace # REF_INTEGRATION}

C11_merge_idempotent ==
    \A i \in 2..Len(merge_call.trees) : merge_call.trees[i] = merge_call.trees[1]

\* the first call rewrote the file, and a second call was made on the result
C11_witness ==
    /\ Len(merge_call.trees) >= 2
    /\ merge_call.errors[1] = ""
    /\ merge_call.trees[1] # merge_call.wc.head

C13_no_changes_ticket_untouched ==
    \A p \in SeqProcs :
        /\ all_targets_excluded(p)
        /\ run[p].app_interface.cloned
        /\ run[p].pc \in {"B_except_NoChangesNeeded", "done"}
        => /\ ~run[p].changed
           /\ run[p].fork = 0 /\ run[p].app_interface_branch = NoBranch
           /\ gitlab_forks = {} /\ gitlab_branches = {}
           /\ run[p].task \in DOMAIN jira
           /\ jira[run[p].task] =
                 [NewIssue(B_TICKET_DESCRIPTION) EXCEPT !.assignee = B_DEFAULT_ASSIGN]

\* C13's case: main of variant B has ended after the merge raised NoChangesNeeded
C13_witness ==
    \E p \in SeqProcs :
        /\ all_targets_excluded(p) /\ run[p].app_interface.cloned
        /\ run[p].pc = "done" /\ run[p].task \in DOMAIN jira

\* C13 as stated: once the merge has reported no changes and main has ended,
\* the tracking ticket is recorded as resolved
C13_ticket_recorded_resolved ==
    \A p \in SeqProcs :
        /\ all_targets_excluded(p) /\ run[p].app_interface.cloned /\ run[p].pc = "done"
        => run[p].task \in DOMAIN jira /\ ~Unresolved(jira[run[p].task])

C15_dry_run ==
    /\ [](\A p \in SeqProcs :
            run[p].dry_run =>
                /\ run[p].variant = "B"
                /\ run[p].pc \in {"B_detect", "B_clone_assisted_service",
                                  "B_write_versions", "done", "aborted"}
                /\ run[p].task = IF run[p].updates_made = {} THEN NoTask ELSE TEST_8888
                /\ run[p].ticket_text = IdleRun.ticket_text
                /\ run[p].assisted_service.commits = 0
                /\ run[p].branch = NoBranch /\ run[p].pr = 0
                /\ run[p].fork = 0 /\ run[p].app_interface_branch = NoBranch
                /\ ~run[p].app_interface.cloned
                /\ \A release \in run[p].updates_made :
                      run[p].updated_version_json[release].rhcos_version
                          = DRY_RUN_RHCOS_VERSION)
    /\ [][\A p \in SeqProcs : run[p].dry_run /\ ~Finished(p) => external' = external]_vars

\* C15's case: with a ticket of an earlier run in the store, a dry run has
\* patched its clone and ended
C15_witness ==
    \E p \in SeqProcs :
        /\ run[p].dry_run /\ run[p].pc = "done" /\ run[p].assisted_service.writes > 0
        /\ run[p].task = TEST_8888 /\ Len(jira) > 0

\* ---- C16
\* C16: when the fetch of a version document gives a non-success status, or
\* a content that cannot be parsed, the run aborts in that very step: the
\* step is not taken again, it writes to no external system, and the run
\* that aborted there had created no ticket, cloned and pushed nothing and
\* opened no pull request; a run is past its fetches only with the pinned
\* document read.
C16_fetch_failure_aborts ==
    /\ [](\A p \in SeqProcs :
            /\ run[p].error \in {"RuntimeError", "JSONDecodeError", "IndexError", "TypeError"}
                  => run[p].pc = "aborted" /\ ~compared(p)
            /\ run[p].pc = "aborted" /\ ~compared(p) =>
                  /\ run[p].error \in {"RuntimeError", "JSONDecodeError", "IndexError",
                                        "TypeError", "KeyError", "AttributeError", "JIRAError"}
                  /\ run[p].task = NoTask /\ run[p].ticket_text = IdleRun.ticket_text
                  /\ ~run[p].assisted_service.cloned /\ run[p].branch = NoBranch
                  /\ run[p].pr = 0 /\ run[p].fork = 0
                  /\ run[p].app_interface_branch = NoBranch
            /\ run[p].pc \notin {"idle", "aborted", "done", "A_get_default_ocp_version",
                                  "B_is_open_update_version_ticket", "B_detect"}
                  => compared(p))
    /\ [][\A p \in SeqProcs :
            (At(p, "A_get_default_ocp_version") \/ At(p, "B_detect")) /\ run'[p] # run[p]
                => external' = external /\ run'[p].pc # run[p].pc]_vars

\* C16's case: with the ticket of an earlier run in the store, a run has
\* aborted on a document that could not be parsed
C16_witness ==
    \E p \in SeqProcs :
        /\ run[p].pc = "aborted" /\ run[p].error = "JSONDecodeError"
        /\ runs = 2 /\ Len(jira) > 0

\* ---- C17
\* C17: once create_jira_ticket has returned a ticket to main, the ticket has
\* the variant's default owner as assignee and every member of
\* DEFAULT_WATCHERS as watcher.
C17_ticket_has_owner_and_watchers ==
    \A p \in SeqProcs :
        /\ returned_ticket(p)
        /\ run[p].pc \notin {"A_assign_issue", "A_add_watchers", "B_assign_issue"}
        => /\ jira[run[p].task].assignee =
                 IF run[p].variant = "A" THEN A_DEFAULT_ASSIGN ELSE B_DEFAULT_ASSIGN
           /\ jira[run[p].task].watchers = {DEFAULT_WATCHERS[i] : i \in DOMAIN DEFAULT_WATCHERS}

\* ---- C18
\* C18: the regeneration step ends the run with CalledProcessError if and
\* only if make exits with a code other than 0 and 2.  After exit code 0 and
\* after exit code 2 main goes on to its next step, towards the commit and
\* the push (a dry run returns there); after any other code the run is
\* aborted with nothing pushed.
C18_verification ==
    /\ [](\A p \in SeqProcs :
            run[p].returncode # <<>> /\ run[p].returncode[1] \notin {0, 2}
                => /\ run[p].pc = "aborted" /\ run[p].error = "CalledProcessError"
                   /\ run[p].branch = NoBranch /\ run[p].pr = 0)
    /\ [][\A p \in SeqProcs :
            (At(p, "A_verify_latest_onprem_config") \/ At(p, "B_write_versions"))
            /\ run'[p] # run[p]
            => /\ run'[p].returncode # <<>>
               /\ run'[p].pc = IF run'[p].returncode[1] \notin {0, 2} THEN "aborted"
                                ELSE IF run[p].variant = "A" THEN "A_commit_onprem_config"
                                ELSE IF run[p].dry_run THEN "done"
                                ELSE "B_clone_app_interface"]_vars

\* C18's case: make has exited with code 2 and the run has pushed its branch
C18_witness ==
    \E p \in SeqProcs :
        /\ run[p].returncode = <<2>> /\ run[p].branch # NoBranch
        /\ run[p].branch \in github_branches

\* ---- C19
\* C19: a run without --dry-run that found drift and created its ticket, and
\* in which no call to an external system failed, does not end before it has
\* pushed the patched primary repository to its branch and opened a pull
\* request with that branch as head, put on hold.
C19_run_opens_held_pull ==
    \A p \in SeqProcs :
        /\ ~run[p].dry_run /\ run[p].task # NoTask
        /\ run[p].pc \in {"done", "aborted"}
        /\ run[p].error \notin {"JIRAError", "CalledProcessError", "GithubException",
                                 "JenkinsException", "GitlabError"}
        => /\ run[p].branch \in github_branches
           /\ has_pull(p)
           /\ pulls[run[p].pr].head = run[p].branch
           /\ hold_issued(pulls[run[p].pr])

\* ---- C20
\* C20: a run triggers the validation job once: the build it polls is the
\* last one of the job for as long as the run lasts, also after a failed
\* result.  The run leaves the polling loop for the passed branch or the
\* failed branch only with a result of its build in hand, the passed branch
\* exactly when that result is "SUCCESS"; and once its build has a result
\* the run does leave the loop.
C20_validation_gate ==
    /\ [](\A p \in SeqProcs :
            /\ run[p].pc \in {"A_wait_for_job", "A_unhold_pr", "A_comment_passed",
                              "A_comment_failed"} \/ run[p].result # ""
                  => /\ Len(builds) = run[p].next_build_number
                     /\ builds[run[p].next_build_number].branch = run[p].branch
            /\ run[p].pc \in {"A_unhold_pr", "A_comment_passed", "A_comment_failed"}
                  => /\ run[p].result # ""
                     /\ run[p].result = builds[run[p].next_build_number].result
                     /\ run[p].test_success <=> run[p].result = SUCCESS
                     /\ run[p].test_success <=> run[p].pc # "A_comment_failed"
            /\ run[p].result = "" => ~run[p].test_success)
    /\ [][Len(builds') > Len(builds) =>
            \E p \in SeqProcs : At(p, "A_build_job") /\ run'[p].pc = "A_wait_for_job"]_vars
    /\ \A p \in SeqProcs :
          (At(p, "A_wait_for_job") /\ builds[run[p].next_build_number].result # "")
              ~> run[p].pc \in {"A_unhold_pr", "A_comment_failed", "aborted"}

\* C20's case: the run's build has failed, the run has seen it and has ended
C20_witness ==
    \E p \in SeqProcs :
        /\ test_failed(p) /\ run[p].pc = "done"
        /\ Len(builds) = run[p].next_build_number

\* ---- C21
\* C21: no step of the pipeline resolves, closes or removes a tracking ticket
\* and none merges, closes or removes a pull request.  On a ticket that
\* exists a step changes at most the assignee, adds watchers and adds
\* comments: summary and status stay (the status moves only when a human
\* moves it).  On a pull request that exists a step only appends '/hold',
\* '/unhold' or another comment: head and state stay.
C21_pipeline_frame ==
    [][/\ \A key \in DOMAIN jira :
             /\ key \in DOMAIN jira'
             /\ jira'[key].summary = jira[key].summary
             /\ jira'[key].status # jira[key].status => HumanMovesTicket
             /\ jira[key].watchers \subseteq jira'[key].watchers
             /\ jira'[key].comments >= jira[key].comments
             /\ jira'[key].assignee \in {jira[key].assignee, A_DEFAULT_ASSIGN, B_DEFAULT_ASSIGN}
        /\ \A n \in DOMAIN pulls :
             /\ n \in DOMAIN pulls'
             /\ pulls'[n].head = pulls[n].head
             /\ pulls'[n].state = pulls[n].state /\ pulls[n].state = "open"
             /\ Len(pulls'[n].comments) >= Len(pulls[n].comments)
             /\ SubSeq(pulls'[n].comments, 1, Len(pulls[n].comments)) = pulls[n].comments]_vars

\* C21's case: a run has ended after it assigned its ticket and held,
\* commented and unheld its pull request
C21_witness ==
    \E p \in SeqProcs :
        /\ run[p].pc = "done" /\ has_pull(p) /\ run[p].task \in DOMAIN jira
        /\ unhold_issued(pulls[run[p].pr]) /\ Len(pulls[run[p].pr].comments) >= 3
        /\ jira[run[p].task].assignee # "" /\ Unresolved(jira[run[p].task])

\* ---- C22
\* C22: in a run of variant B without --dry-run a release line of the pinned
\* document is in updates_made if and only if its pinned display_name
\* differs from the latest release of the line on the mirror or the RHCOS
\* release of its pinned image differs from the latest RHCOS release of the
\* line; with --dry-run every line of the pinned document is in the set.
\* Variant A keeps no set: its run goes on past the comparison if and only if
\* the pinned OCP release of the line of its latest version differs from
\* that version.
C22_drift_set ==
    \A p \in SeqProcs :
        /\ run[p].variant = "A" /\ compared(p) =>
            /\ run[p].updates_made = {}
            /\ run[p].ticket_text # IdleRun.ticket_text <=>
                  default_ocp_versions[rsplit_dot(A_LATEST_OCP_VERSION)]
                      .release_image.ocp_release # A_LATEST_OCP_VERSION
        /\ run[p].variant = "B" /\ compared(p) =>
            /\ run[p].updates_made \subseteq DOMAIN default_ocp_versions
            /\ \A l \in DOMAIN default_ocp_versions :
                  l \in run[p].updates_made <=>
                      \/ run[p].dry_run
                      \/ default_ocp_versions[l].display_name # latest_ocp_release[l]
                      \/ default_ocp_versions[l].rhcos_image.dir # rhcos_latest_release[l]

\* C22's case: a run without --dry-run has put one line in the set and left
\* the other, which is equal on both attributes, out of it
C22_witness ==
    \E p \in SeqProcs :
        /\ run[p].variant = "B" /\ compared(p) /\ ~run[p].dry_run
        /\ run[p].updates_made = {"4.6"}
        /\ default_ocp_versions["4.7"].display_name = latest_ocp_release["4.7"]

\* C22 as stated: a line is in the set if and only if one of its two pinned
\* attributes differs from the latest
C22_drift_iff_differs ==
    \A p \in SeqProcs :
        run[p].variant = "B" /\ compared(p) =>
            \A l \in DOMAIN default_ocp_versions :
                l \in run[p].updates_made <=>
                    \/ default_ocp_versions[l].display_name # latest_ocp_release[l]
                    \/ default_ocp_versions[l].rhcos_image.dir # rhcos_latest_release[l]

\* ---- C23
\* C23: change_version_in_files on the content of a file, for two different
\* versions.  A content with no occurrence of an old pattern is unchanged.  A
\* content with one occurrence in all comes out with that occurrence turned
\* into the new pattern and the text before and after it as it was.  A
\* pattern that occurred in the content has its new counterpart in the
\* result.  The old quoted literal does not occur in the result unless two
\* of its occurrences shared a quote; the old ocp-release fragment does not
\* occur in the result unless one version is the start of the other.
C23_substitution ==
    call.function = "change_version_in_files" /\ call.returned # <<>> =>
        LET content == call.args[1]
            old == REPLACE_CONTEXT(call.args[2])
            new == REPLACE_CONTEXT(call.args[3])
            out == call.returned[1]
            at(text, i, pattern) ==
                /\ i + Len(pattern) - 1 <= Len(text)
                /\ SubSeq(text, i, i + Len(pattern) - 1) = pattern
            occurrences(text, pattern) ==
                Cardinality({i \in 1..Len(text) : at(text, i, pattern)})
        IN  /\ occurrences(content, old[1]) + occurrences(content, old[2]) = 0
                  => out = content
            /\ \A k \in 1..2 :
                  /\ occurrences(content, old[k]) = 1 /\ occurrences(content, old[3 - k]) = 0
                        => \E i \in 1..Len(content) :
                              /\ at(content, i, old[k])
                              /\ out = SubSeq(content, 1, i - 1) \o new[k]
                                         \o SubSeq(content, i + Len(old[k]), Len(content))
                  /\ occurrences(content, old[k]) > 0 => occurrences(out, new[k]) > 0
            /\ occurrences(content, old[1] \o Tail(old[1])) = 0
                  => occurrences(out, old[1]) = 0
            /\ ~startswith(call.args[3], call.args[2]) /\ ~startswith(call.args[2], call.args[3])
                  => occurrences(out, old[2]) = 0

\* C23's case: a content with both patterns in it has been rewritten
C23_witness ==
    /\ call.function = "change_version_in_files" /\ call.returned # <<>>
    /\ contains(call.args[1], REPLACE_CONTEXT(call.args[2])[1])
    /\ contains(call.args[1], REPLACE_CONTEXT(call.args[2])[2])
    /\ call.returned[1] # call.args[1]

\* C23 as stated: no occurrence of either old pattern remains
C23_no_old_pattern_remains ==
    call.function = "change_version_in_files" /\ call.returned # <<>> =>
        /\ ~contains(call.returned[1], REPLACE_CONTEXT(call.args[2])[1])
        /\ ~contains(call.returned[1], REPLACE_CONTEXT(call.args[2])[2])

\* ---- C24
\* C24: when invocations overlap, a process at the creation call is there
\* because its own search found no ticket with its summary, whatever has been
\* created since; variant A creates a ticket whose summary an existing ticket
\* carries only if that ticket is not among the summaries its search read;
\* and the open tickets that carry one summary are never more than the
\* processes that run at the same time.
C24_search_then_create ==
    /\ [](/\ \A p \in Procs :
               /\ At(p, "A_create_issue")
                    => ~ticket_already_exists(run[p].summaries, run[p].ticket_text)
               /\ At(p, "A_create_issue") \/ At(p, "B_create_issue")
                    => run[p].ticket_text # IdleRun.ticket_text
          /\ \A key \in 1..Len(jira) :
               Cardinality({other \in 1..Len(jira) :
                               /\ jira[other].summary = jira[key].summary
                               /\ jira[other].status = TODO}) <= Cardinality(Procs))
    /\ [][\A p \in Procs :
            At(p, "A_create_issue") /\ run'[p] # run[p] /\ jira' # jira =>
                /\ jira' = Append(jira, NewIssue(run[p].ticket_text))
                /\ \A key \in 1..Len(jira) :
                     jira[key].summary = run[p].ticket_text
                        => <<key, jira[key].summary>> \notin run[p].summaries]_vars

\* C24's case: both processes searched before either created, and both
\* created: two open tickets carry the same summary
C24_witness ==
    /\ Len(jira) = 2
    /\ jira[1].summary = jira[2].summary
    /\ jira[1].status = TODO /\ jira[2].status = TODO
    /\ run[1].task # run[2].task
    /\ {run[1].task, run[2].task} = {1, 2}
    /\ run[1].summaries = {} /\ run[2].summaries = {}

\* ---- C25
\* C25: the order of the effects of one run.  A ticket is created only after
\* the pinned versions were fetched and the drift decided; a branch is pushed
\* and a pull request opened only when the run's ticket exists; a pull
\* request is opened only for a pushed branch; a validation build is
\* triggered only for a pushed branch with its pull request open.  Variant A
\* starts on the secondary repository only after the build it triggered has
\* a result.  Variant B triggers no build: it reaches the merge for the
\* secondary repository once its pull request is open and unheld.
C25_order_of_effects ==
    /\ [](\A p \in SeqProcs :
            /\ run[p].pc \in {"A_create_app_interface_fork", "A_clone_app_interface",
                              "A_change_version_in_files_app_interface",
                              "A_commit_and_push_app_interface", "A_open_app_interface_pr"}
                 => /\ run[p].next_build_number \in 1..Len(builds)
                    /\ builds[run[p].next_build_number].branch = run[p].branch
                    /\ builds[run[p].next_build_number].result \in JobResults
                    /\ run[p].result = builds[run[p].next_build_number].result
            /\ run[p].pc \in {"B_change_version_in_files_app_interface", "B_except_NoChangesNeeded"}
                 => /\ run[p].pr \in 1..Len(pulls)
                    /\ pulls[run[p].pr].head = run[p].branch
                    /\ ~Held(pulls[run[p].pr])
                    /\ builds = <<>>)
    /\ [][\A p \in SeqProcs : run'[p] # run[p] =>
            /\ Len(jira') > Len(jira)
                 => /\ run[p].ticket_text # IdleRun.ticket_text
                    /\ run[p].variant = "A" => run[p].current_version \notin {"", run[p].latest_ocp_version}
                    /\ run[p].variant = "B" => run[p].updates_made # {}
            /\ github_branches' # github_branches \/ Len(pulls') > Len(pulls)
                 => /\ run[p].task \in 1..Len(jira)
                    /\ jira[run[p].task].summary = run[p].ticket_text
            /\ Len(pulls') > Len(pulls)
                 => pulls'[Len(pulls')].head \in github_branches
            /\ Len(builds') > Len(builds)
                 => /\ builds'[Len(builds')].branch \in github_branches
                    /\ run[p].pr \in 1..Len(pulls)
                    /\ pulls[run[p].pr].head = builds'[Len(builds')].branch
            /\ gitlab_forks' # gitlab_forks \/ gitlab_branches' # gitlab_branches
                 => /\ run[p].next_build_number \in 1..Len(builds)
                    /\ builds[run[p].next_build_number].result \in JobResults]_vars

\* C25's case: a run of variant A has gone through every stage and is at work
\* on the secondary repository with its fork created
C25_witness ==
    /\ At(1, "A_change_version_in_files_app_interface")
    /\ run[1].task \in 1..Len(jira)
    /\ run[1].branch \in github_branches
    /\ run[1].pr \in 1..Len(pulls)
    /\ builds[run[1].next_build_number].result = SUCCESS
    /\ USER_FORK \in gitlab_forks

\* C25 as stated: nothing is pushed or opened before a ticket exists, nothing
\* validated before push and pull request, and no process is at work on the
\* secondary repository before a validation of its branch has a result
C25_fixed_order ==
    /\ github_branches # {} \/ pulls # <<>> => jira # <<>>
    /\ builds # <<>> => github_branches # {} /\ pulls # <<>>
    /\ \A p \in SeqProcs :
         run[p].pc \in {"A_create_app_interface_fork", "A_clone_app_interface",
                        "A_change_version_in_files_app_interface",
                        "A_commit_and_push_app_interface", "A_open_app_interface_pr",
                        "B_change_version_in_files_app_interface", "B_except_NoChangesNeeded"}
            => \E n \in 1..Len(builds) :
                 builds[n].branch = run[p].branch /\ builds[n].result \in JobResults

\* ---- C26
\* C26: a run whose regeneration step (make update-ocp-version) ended with an
\* exit code that is raised has aborted with CalledProcessError.  The ticket
\* it created is there, still to do; it has pushed no branch, opened no pull
\* request, triggered no build and touched nothing of the secondary
\* repository.  The aborting step writes to no external system, and the
\* process takes no further step: what comes next is a new invocation.
C26_regeneration_failure ==
    /\ [](\A p \in SeqProcs :
            run[p].returncode # <<>> /\ verify_raises(run[p].returncode[1]) =>
                /\ At(p, "aborted")
                /\ run[p].error = "CalledProcessError"
                /\ ~run[p].dry_run
                     => /\ run[p].task \in 1..Len(jira)
                        /\ jira[run[p].task].summary = run[p].ticket_text
                        /\ jira[run[p].task].status = TODO
                /\ run[p].branch = NoBranch
                /\ run[p].pr = 0
                /\ \A n \in 1..Len(pulls) : pulls[n].task # run[p].task
                /\ run[p].next_build_number = 0
                /\ run[p].fork = 0
                /\ run[p].app_interface = NoAppClone
                /\ run[p].app_interface_branch = NoBranch)
    /\ [][\A p \in SeqProcs :
            /\ (At(p, "A_verify_latest_onprem_config") \/ At(p, "B_write_versions"))
                  /\ run'[p].pc = "aborted"
               => external' = external
            /\ At(p, "aborted")
                  /\ run[p].returncode # <<>> /\ verify_raises(run[p].returncode[1])
                  /\ run'[p] # run[p]
               => /\ run'[p].pc \in {"idle", "A_get_default_ocp_version", "B_detect",
                                     "B_is_open_update_version_ticket"}
                  /\ <<github_branches, pulls, builds, gitlab_forks, gitlab_branches>>' =
                         <<github_branches, pulls, builds, gitlab_forks, gitlab_branches>>]_vars

\* C26's case: the regeneration of a run of variant A that had created its
\* ticket failed with exit code 1
C26_witness ==
    /\ At(1, "aborted")
    /\ run[1].variant = "A"
    /\ run[1].returncode = <<1>>
    /\ run[1].task \in 1..Len(jira)
    /\ jira[run[1].task].status = TODO

\* ---- C27
\* C27: for a list with an entry that starts with the release line m,
\* get_latest_release_from_minor returns an entry of line m (its major.minor
\* is m), the greatest in version order of the entries of line m that are
\* not pre-releases, or of all entries of line m when every one is a
\* pre-release.
C27_latest_of_line ==
    /\ call.function = "get_latest_release_from_minor" /\ call.returned # <<>>
    /\ \E i \in 1..Len(call.args[2]) : startswith(Chars(call.args[2][i]), Chars(call.args[1]))
    => LET major_minor(r) == IF Len(LooseVersion(r)) < 2 THEN <<>>
                             ELSE SubSeq(LooseVersion(r), 1, 2)
           line == {call.args[2][i] : i \in {k \in 1..Len(call.args[2]) :
                        major_minor(call.args[2][k]) = LooseVersion(call.args[1])}}
           candidates == IF \E r \in line : ~is_pre_release(r)
                         THEN {r \in line : ~is_pre_release(r)} ELSE line
       IN  /\ call.returned[1] \in candidates
           /\ \A o \in candidates :
                ~VersionLess(LooseVersion(call.returned[1]), LooseVersion(o))

\* ---- C28
\* C28: once a run of variant B without --dry-run has written the version map
\* into its clone, the written map has the release lines of the pinned map;
\* the entry of a line outside updates_made is the pinned entry; in the entry
\* of a line of updates_made, display_name and release_image are the pinned
\* ones unless the OCP release of the line differed from the latest, and
\* rhcos_image and rhcos_version are the pinned ones unless its RHCOS release
\* differed, and a field that is rewritten holds the latest release; the
\* fetched map default_version_json is still the document master holds, and
\* no later step of main changes it.
C28_written_map_frame ==
    /\ [](\A p \in SeqProcs :
            run[p].variant = "B" /\ ~run[p].dry_run /\ run[p].assisted_service.writes > 0 =>
                LET pinned == run[p].default_version_json
                    written == run[p].assisted_service.tree
                IN  /\ pinned = default_ocp_versions
                    /\ DOMAIN written = DOMAIN pinned
                    /\ \A l \in DOMAIN pinned :
                         /\ l \notin run[p].updates_made => written[l] = pinned[l]
                         /\ IF pinned[l].display_name = latest_ocp_release[l]
                            THEN /\ written[l].display_name = pinned[l].display_name
                                 /\ written[l].release_image = pinned[l].release_image
                            ELSE /\ l \in run[p].updates_made
                                 /\ written[l].display_name = latest_ocp_release[l]
                                 /\ written[l].release_image.ocp_release = latest_ocp_release[l]
                         /\ IF pinned[l].rhcos_image.dir = rhcos_latest_release[l]
                            THEN /\ written[l].rhcos_image = pinned[l].rhcos_image
                                 /\ written[l].rhcos_version = pinned[l].rhcos_version
                            ELSE /\ l \in run[p].updates_made
                                 /\ written[l].rhcos_image.dir = rhcos_latest_release[l]
                                 /\ written[l].rhcos_version
                                        = rchos_version_in_iso(rhcos_latest_release[l]))
    /\ [][\A p \in SeqProcs :
            /\ run[p].variant = "B"
            /\ run[p].pc \notin {"idle", "done", "aborted", "B_is_open_update_version_ticket",
                                 "B_detect"}
            /\ run'[p].pc \notin {"idle", "B_is_open_update_version_ticket", "B_detect"}
            => /\ run'[p].default_version_json = run[p].default_version_json
               /\ run'[p].updates_made = run[p].updates_made]_vars

\* C28's case: a map was written in which one release line changed in its
\* RHCOS fields only and the other line not at all
C28_witness ==
    /\ run[1].variant = "B" /\ ~run[1].dry_run /\ run[1].assisted_service.writes > 0
    /\ run[1].updates_made = {"4.6"}
    /\ run[1].assisted_service.tree["4.6"].rhcos_image # run[1].default_version_json["4.6"].rhcos_image
    /\ run[1].assisted_service.tree["4.6"].display_name = run[1].default_version_json["4.6"].display_name
    /\ run[1].assisted_service.tree["4.7"] = run[1].default_version_json["4.7"]

\* ---- C29
\* C29: a run without --dry-run that is past the ticket check and at work
\* (creating its ticket, cloning, patching, pushing, opening the pull request
\* or propagating) meets no ticket left behind by an interrupted run: no
\* other unresolved ticket carries its summary without a pull request opened
\* for it.  Stated for unresolved tickets only; the claim speaks of every
\* ticket with the summary.
C29_no_retry_while_ticket_exists ==
    \A p \in SeqProcs :
        /\ ~run[p].dry_run
        /\ run[p].pc \notin {"idle", "done", "aborted", "A_get_default_ocp_version",
                             "A_search_issues", "B_is_open_update_version_ticket", "B_detect"}
        => \A key \in 1..Len(jira) :
              /\ jira[key].summary = run[p].ticket_text
              /\ Unresolved(jira[key])
              /\ \A n \in 1..Len(pulls) : pulls[n].task # key
              => key = run[p].task

====
